---- MODULE Spec2Model ----
(***************************************************************************)
(* bid-aggregator: the item store's upsert / identity resolution           *)
(* (core/database.py) and the saved-search diff and notification engine    *)
(* (notify/runner.py, notify/sender.py, core/saved_search_db.py),          *)
(* and the chunked ingest with its normalizers (ingest/full_ingest.py,     *)
(* ingest/normalizer.py).                                                  *)
(*                                                                         *)
(* Text values are sequences of one-character strings; Python's None is    *)
(* the value None below, the empty string is <<>>.  sha256 is modelled as  *)
(* injective: a digest is the text that was hashed.                        *)
(***************************************************************************)
EXTENDS Integers, Sequences, FiniteSets, TLC

VARIABLES
    items,          \* table items: row id (1..Len) -> row
    calls,          \* history of the upsert_item calls made so far
    clock,          \* _now_utc(), one tick per store operation
    runs,           \* table saved_search_runs: run id (1..Len) -> row
    hits,           \* table saved_search_hits, in insertion order
    notifications,  \* table saved_search_notifications, in insertion order
    last_run_at,    \* saved_searches.last_run_at per saved search (0: NULL)
    execs,          \* history of the SavedSearchRunner.run executions so far
    rounds,         \* history of the offline retry rounds so far
    keys,           \* history of the generate_dedupe_key calls so far
    gen,            \* a date_range_generator: its arguments, position, yields
    ingest,         \* a run_full_ingest call: arguments, position, result
    norm,           \* the latest normalize_*_results call: input and output
    hashed,         \* the latest pair of generate_content_hash calls
    cycle,          \* a fetch, normalize, upsert cycle and its repetition
    kkj,            \* a KKJClient: its clock, rate-limit state, requests
    pportal         \* a PPortalClient: its clock, session, requests

upsertVars == <<items, calls, clock>>

runnerVars == <<runs, hits, notifications, last_run_at, execs, rounds>>

\* The state of the pure functions' call histories.
auxVars == <<keys, gen, ingest, norm>>

\* The state of the hashing calls and of the source clients.
extVars == <<hashed, cycle, kkj, pportal>>

vars == <<items, calls, clock, runs, hits, notifications, last_run_at, execs, rounds, auxVars, extVars>>

\* -------------------------------------------------------------------------
\* Bounds
\* -------------------------------------------------------------------------

MaxCalls == 3

MaxRuns == 2

MaxItems == 2

MaxRounds == 3

\* The attempt ceiling the retry rounds pass to get_failed_notifications.
MaxAttempts == 3

\* -------------------------------------------------------------------------
\* Text and hashing (core/database.py)
\* -------------------------------------------------------------------------

None == <<"<None>">>

Truthy(s) == s # None /\ s # <<>>

\* unicodedata.normalize("NFKC", s), one character at a time: the full-width
\* letter and the ideographic space have compatibility mappings.
NfkcChar(c) ==
    CASE c = "FW_a" -> "a"
      [] c = "FW_b" -> "b"
      [] c = "IDEO_SP" -> " "
      [] OTHER -> c

Nfkc(s) == [i \in 1..Len(s) |-> NfkcChar(s[i])]

IsSpace(c) == c \in {" ", "\n", "\t"}

\* " ".join(s.split()): whitespace runs collapse to one space and the edges
\* are dropped.  pending is TRUE when a separator is owed before the next word.
RECURSIVE JoinSplit(_, _, _)
JoinSplit(s, acc, pending) ==
    IF s = <<>> THEN acc
    ELSE IF IsSpace(Head(s))
         THEN JoinSplit(Tail(s), acc, acc # <<>>)
         ELSE JoinSplit(Tail(s),
                        (IF pending THEN Append(acc, " ") ELSE acc) \o <<Head(s)>>,
                        FALSE)

\* Mutant: whitespace is neither collapsed nor trimmed.
normalize_string_NoCollapse(s) ==
    IF s = None THEN <<>> ELSE Nfkc(s)

normalize_string(s) ==
    IF s = None THEN <<>> ELSE JoinSplit(Nfkc(s), <<>>, FALSE)

RECURSIVE escape_pipe(_)
escape_pipe(s) ==
    IF s = <<>> THEN <<>>
    ELSE (IF Head(s) = "\\" THEN <<"\\", "\\">>
          ELSE IF Head(s) = "|" THEN <<"\\", "|">>
          ELSE <<Head(s)>>) \o escape_pipe(Tail(s))

RECURSIVE JoinPipe(_)
JoinPipe(parts) ==
    IF parts = <<>> THEN <<>>
    ELSE IF Len(parts) = 1 THEN parts[1]
    ELSE parts[1] \o <<"|">> \o JoinPipe(Tail(parts))

generate_content_hash(title, organization_name, published_at, deadline_at, url, source_item_id) ==
    LET idPart == IF Truthy(source_item_id)
                  THEN <<escape_pipe(normalize_string(source_item_id))>>
                  ELSE <<>>
        parts == idPart \o
                 << escape_pipe(normalize_string(title)),
                    escape_pipe(normalize_string(organization_name)),
                    escape_pipe(normalize_string(published_at)),
                    escape_pipe(normalize_string(deadline_at)),
                    escape_pipe(normalize_string(url)) >>
    IN JoinPipe(parts)

\* -------------------------------------------------------------------------
\* Items (core/models.py) as the normalizers build them
\* -------------------------------------------------------------------------

\* An Item whose content_hash is computed from its own fields, as both
\* normalizers do.  Dates are kept as the source's text.
NewItem(source, sid, url, title) ==
    [ source            |-> source,
      source_item_id    |-> sid,
      url               |-> url,
      title             |-> title,
      organization_name |-> <<"o">>,
      published_at      |-> None,
      deadline_at       |-> None,
      category          |-> None,
      region            |-> None,
      body              |-> None,
      body_hash         |-> None,
      content_hash      |-> generate_content_hash(title, <<"o">>, None, None,
                                                  url, sid) ]

Sources == {"kkj", "pportal"}

UpsertSids == {None, <<>>, <<"1">>, <<"2">>}

UpsertUrls == {None, <<>>, <<"u">>, <<"v">>}

UpsertTitles == {<<"a">>}

UpsertInputs ==
    { NewItem(src, sid, url, t) :
        src \in Sources, sid \in UpsertSids, url \in UpsertUrls,
        t \in UpsertTitles }

\* -------------------------------------------------------------------------
\* upsert_item (core/database.py)
\* -------------------------------------------------------------------------

\* Mutant: the items table is created without its unique indexes.
UniqueIndexesHold_Absent(tbl) == TRUE

\* idx_items_source_item and idx_items_url: partial unique indexes, which
\* apply to every non-NULL value, the empty string included.
UniqueIndexesHold(tbl) ==
    \A i, j \in DOMAIN tbl :
        i # j =>
            /\ ~ ( /\ tbl[i].source_item_id # None
                   /\ tbl[i].source = tbl[j].source
                   /\ tbl[i].source_item_id = tbl[j].source_item_id )
            /\ ~ ( tbl[i].url # None /\ tbl[i].url = tbl[j].url )

LookupBySourceItem(tbl, item) ==
    IF Truthy(item.source_item_id)
    THEN { i \in DOMAIN tbl : /\ tbl[i].source = item.source
                              /\ tbl[i].source_item_id = item.source_item_id }
    ELSE {}

LookupByUrl(tbl, item) ==
    IF Truthy(item.url)
    THEN { i \in DOMAIN tbl : tbl[i].url = item.url }
    ELSE {}

\* Mutant: the content-hash fallback is left out.
LookupByContentHash_Skipped(tbl, item) == {}

LookupByContentHash(tbl, item) ==
    { i \in DOMAIN tbl : tbl[i].content_hash = item.content_hash }

\* Mutant: the URL lookup is tried before the source item id.
ExistingIds_UrlFirst(tbl, item) ==
    IF LookupByUrl(tbl, item) # {} THEN LookupByUrl(tbl, item)
    ELSE IF LookupBySourceItem(tbl, item) # {} THEN LookupBySourceItem(tbl, item)
    ELSE LookupByContentHash(tbl, item)

\* The rows fetchone() may return as existing_id: the first lookup, in the
\* order source item id, URL, content hash, that finds anything.  A lookup on
\* content_hash can match several rows; SQL leaves open which comes first.
ExistingIds(tbl, item) ==
    IF LookupBySourceItem(tbl, item) # {} THEN LookupBySourceItem(tbl, item)
    ELSE IF LookupByUrl(tbl, item) # {} THEN LookupByUrl(tbl, item)
    ELSE LookupByContentHash(tbl, item)

\* Mutant: the UPDATE also rewrites source and created_at.
UpdatedRow_RewritesOrigin(row, item, now) == [ row EXCEPT !.source = item.source, !.source_item_id = item.source_item_id, !.url = item.url, !.title = item.title, !.organization_name = item.organization_name, !.published_at = item.published_at, !.deadline_at = item.deadline_at, !.category = item.category, !.region = item.region, !.body = item.body, !.body_hash = item.body_hash, !.content_hash = item.content_hash, !.created_at = now, !.updated_at = now ]

\* UPDATE items SET ... WHERE id = existing_id
UpdatedRow(row, item, now) ==
    [ row EXCEPT
        !.source_item_id    = item.source_item_id,
        !.url               = item.url,
        !.title             = item.title,
        !.organization_name = item.organization_name,
        !.published_at      = item.published_at,
        !.deadline_at       = item.deadline_at,
        !.category          = item.category,
        !.region            = item.region,
        !.body              = item.body,
        !.body_hash         = item.body_hash,
        !.content_hash      = item.content_hash,
        !.updated_at        = now ]

\* INSERT INTO items ... VALUES (...)
InsertedRow(item, now) ==
    [ source            |-> item.source,
      source_item_id    |-> item.source_item_id,
      url               |-> item.url,
      title             |-> item.title,
      organization_name |-> item.organization_name,
      published_at      |-> item.published_at,
      deadline_at       |-> item.deadline_at,
      category          |-> item.category,
      region            |-> item.region,
      body              |-> item.body,
      body_hash         |-> item.body_hash,
      content_hash      |-> item.content_hash,
      created_at        |-> now,
      updated_at        |-> now ]

\* One call of upsert_item.  A statement that would break a unique index
\* raises sqlite3.IntegrityError: nothing is committed and the call returns
\* nothing.
upsert_item(item) ==
    /\ Len(calls) < MaxCalls
    /\ clock' = clock + 1
    /\ UNCHANGED <<runnerVars, auxVars, extVars>>
    /\ LET now == clock + 1
           found == ExistingIds(items, item)
       IN IF found # {}
          THEN \E id \in found :
                 LET tbl == [items EXCEPT ![id] = UpdatedRow(items[id], item, now)]
                 IN IF UniqueIndexesHold(tbl)
                    THEN /\ items' = tbl
                         /\ calls' = Append(calls,
                              [item |-> item, pre |-> items, raised |-> FALSE,
                               id |-> id, is_new |-> FALSE])
                    ELSE /\ items' = items
                         /\ calls' = Append(calls,
                              [item |-> item, pre |-> items, raised |-> TRUE,
                               id |-> 0, is_new |-> FALSE])
          ELSE LET tbl == Append(items, InsertedRow(item, now))
               IN IF UniqueIndexesHold(tbl)
                  THEN /\ items' = tbl
                       /\ calls' = Append(calls,
                            [item |-> item, pre |-> items, raised |-> FALSE,
                             id |-> Len(tbl), is_new |-> TRUE])
                  ELSE /\ items' = items
                       /\ calls' = Append(calls,
                            [item |-> item, pre |-> items, raised |-> TRUE,
                             id |-> 0, is_new |-> FALSE])

UpsertCall == \E item \in UpsertInputs : upsert_item(item)

InitStore ==
    /\ items = <<>>
    /\ calls = <<>>
    /\ clock = 0
    /\ runs = <<>>
    /\ hits = <<>>
    /\ notifications = <<>>
    /\ last_run_at = [ss \in {1, 2} |-> 0]
    /\ execs = <<>>
    /\ rounds = <<>>
    /\ keys = <<>>
    /\ gen = [ state |-> "idle" ]
    /\ ingest = [ state |-> "idle" ]
    /\ norm = [ fn |-> "none" ]
    /\ hashed = [ state |-> "idle" ]
    /\ cycle = [ state |-> "idle" ]
    /\ kkj = [ pc |-> "none" ]
    /\ pportal = [ pc |-> "none" ]

InitUpsert == InitStore

NextUpsert == UpsertCall

SpecUpsert == InitUpsert /\ [][NextUpsert]_vars

\* -------------------------------------------------------------------------
\* Saved searches, runs, hits, notifications (core/saved_search_db.py)
\* -------------------------------------------------------------------------

\* SQL NULL in the text columns of the run and notification tables.
Null == "NULL"

\* Two stored searches with empty filters: 1 with only_new, 2 without.
SavedSearchIds == {1, 2}

saved_search(id) == [id |-> id, only_new |-> (id = 1)]

\* INSERT INTO saved_search_runs ... VALUES (?, ?, ?, ?, 0, 'running')
create_saved_search_run(saved_search_id) ==
    [ saved_search_id   |-> saved_search_id,
      status            |-> "running",
      hit_count         |-> 0,
      error_message     |-> Null,
      notified_channels |-> <<>>,
      notify_status     |-> Null,
      notify_error      |-> <<>> ]

\* Mutant: the UPDATE of the run row leaves error_message out.
update_saved_search_run_DropsError(tbl, run_id, hit_count, status, error_message, notified_channels, notify_status, notify_error) ==
    [ tbl EXCEPT ![run_id] =
        [ @ EXCEPT !.hit_count         = hit_count,
                   !.status            = status,
                   !.notified_channels = notified_channels,
                   !.notify_status     = notify_status,
                   !.notify_error      = notify_error ] ]

\* UPDATE saved_search_runs SET all six columns WHERE id = run_id
update_saved_search_run(tbl, run_id, hit_count, status, error_message, notified_channels, notify_status, notify_error) ==
    [ tbl EXCEPT ![run_id] =
        [ @ EXCEPT !.hit_count         = hit_count,
                   !.status            = status,
                   !.error_message     = error_message,
                   !.notified_channels = notified_channels,
                   !.notify_status     = notify_status,
                   !.notify_error      = notify_error ] ]

\* INSERT INTO saved_search_hits (saved_search_run_id, item_id, ...)
create_saved_search_hit(run_id, item_id) ==
    [ saved_search_run_id |-> run_id, item_id |-> item_id, notified_at |-> 0 ]

\* Mutant: only the hits of runs that ended ok count as previous hits.
get_previous_hit_item_ids_OkRunsOnly(hitTbl, runTbl, saved_search_id) ==
    { hitTbl[h].item_id :
        h \in { x \in DOMAIN hitTbl :
                  /\ runTbl[hitTbl[x].saved_search_run_id].saved_search_id
                        = saved_search_id
                  /\ runTbl[hitTbl[x].saved_search_run_id].status = "ok" } }

\* Mutant: only the hits already marked notified count as previous hits.
get_previous_hit_item_ids_NotifiedOnly(hitTbl, runTbl, saved_search_id) ==
    { hitTbl[h].item_id :
        h \in { x \in DOMAIN hitTbl :
                  /\ runTbl[hitTbl[x].saved_search_run_id].saved_search_id
                        = saved_search_id
                  /\ hitTbl[x].notified_at # 0 } }

\* SELECT DISTINCT h.item_id FROM hits h JOIN runs r ... WHERE
\* r.saved_search_id = ?: the hits of every run of the search, whatever the
\* run's status.
get_previous_hit_item_ids(hitTbl, runTbl, saved_search_id) ==
    { hitTbl[h].item_id :
        h \in { x \in DOMAIN hitTbl :
                  runTbl[hitTbl[x].saved_search_run_id].saved_search_id
                     = saved_search_id } }

\* UPDATE saved_search_hits SET notified_at = ? WHERE saved_search_run_id = ?
mark_hits_notified(hitTbl, run_id, now) ==
    [ h \in DOMAIN hitTbl |->
        IF hitTbl[h].saved_search_run_id = run_id
        THEN [hitTbl[h] EXCEPT !.notified_at = now]
        ELSE hitTbl[h] ]

\* The decimal digits, in ASCII order.
Digits == <<"0", "1", "2", "3", "4", "5", "6", "7", "8", "9">>

\* datetime.now(timezone.utc).isoformat() of clock tick t, a tick being half a
\* second: seconds are zero-padded to a fixed width, the fraction is printed
\* only when it is not zero, and the UTC offset follows.
isoformat(t) ==
    << Digits[(((t \div 2) \div 10) % 10) + 1], Digits[((t \div 2) % 10) + 1] >>
      \o (IF t % 2 = 0 THEN <<>> ELSE <<".", "5">>)
      \o <<"+">>

\* The byte value of a character of a timestamp.
CharCode(c) ==
    IF c = "+" THEN 43
    ELSE IF c = "." THEN 46
    ELSE 47 + (CHOOSE d \in DOMAIN Digits : Digits[d] = c)

\* a < b for TEXT values under SQLite's BINARY collation (memcmp, the shorter
\* of two values with a common prefix first).
RECURSIVE TextLess(_, _)
TextLess(a, b) ==
    IF b = <<>> THEN FALSE
    ELSE IF a = <<>> THEN TRUE
    ELSE IF CharCode(Head(a)) # CharCode(Head(b))
    THEN CharCode(Head(a)) < CharCode(Head(b))
    ELSE TextLess(Tail(a), Tail(b))

\* INSERT INTO saved_search_notifications ... attempt_count 1, last_attempt_at
\* _now_utc()
create_notification(run_id, channel, recipient, status, dedupe_key, error_message, now) ==
    [ saved_search_run_id |-> run_id,
      channel             |-> channel,
      recipient           |-> recipient,
      status              |-> status,
      attempt_count       |-> 1,
      last_attempt_at     |-> isoformat(now),
      error_message       |-> error_message,
      dedupe_key          |-> dedupe_key ]

\* Mutant: the attempt is stored as a further row.
update_notification_status_AddsRow(tbl, notification_id, status, error_message, now) ==
    Append(tbl, [ tbl[notification_id] EXCEPT
                    !.status          = status,
                    !.attempt_count   = @ + 1,
                    !.last_attempt_at = isoformat(now),
                    !.error_message   = error_message ])

\* UPDATE saved_search_notifications SET status = ?, attempt_count =
\* attempt_count + 1, last_attempt_at = ?, error_message = ? WHERE id = ?
update_notification_status(tbl, notification_id, status, error_message, now) ==
    [ tbl EXCEPT ![notification_id] =
        [ @ EXCEPT !.status          = status,
                   !.attempt_count   = @ + 1,
                   !.last_attempt_at = isoformat(now),
                   !.error_message   = error_message ] ]

\* The orders in which ORDER BY last_attempt_at ASC can return the rows ids:
\* a row comes first when no other row's last_attempt_at is less.
RECURSIVE AscendingOrders(_, _)
AscendingOrders(tbl, ids) ==
    IF ids = {} THEN { <<>> }
    ELSE UNION { { <<m>> \o rest : rest \in AscendingOrders(tbl, ids \ {m}) } :
                 m \in { x \in ids :
                           \A y \in ids : ~TextLess(tbl[y].last_attempt_at,
                                                     tbl[x].last_attempt_at) } }

\* Mutant: a row that has used up its attempts is still selected.
get_failed_notifications_AtCeiling(tbl, max_attempts) ==
    AscendingOrders(tbl, { n \in DOMAIN tbl :
                             /\ tbl[n].status = "failed"
                             /\ tbl[n].attempt_count <= max_attempts })

\* Mutant: the rows are selected whatever their status.
get_failed_notifications_AnyStatus(tbl, max_attempts) ==
    AscendingOrders(tbl, { n \in DOMAIN tbl :
                             tbl[n].attempt_count < max_attempts })

\* SELECT * FROM saved_search_notifications WHERE status = 'failed' AND
\* attempt_count < ? ORDER BY last_attempt_at ASC: the lists of row ids the
\* query can return.
get_failed_notifications(tbl, max_attempts) ==
    AscendingOrders(tbl, { n \in DOMAIN tbl :
                             /\ tbl[n].status = "failed"
                             /\ tbl[n].attempt_count < max_attempts })

\* -------------------------------------------------------------------------
\* search_items (core/database.py) as the runner calls it
\* -------------------------------------------------------------------------

SearchLimit == 1000

\* Empty filters match every row; ORDER BY COALESCE(published_at, created_at)
\* DESC gives the rows newest first (created_at grows with the row id);
\* LIMIT 1000 OFFSET 0.
search_items(tbl) ==
    LET n == IF Len(tbl) < SearchLimit THEN Len(tbl) ELSE SearchLimit
    IN [k \in 1..n |-> Len(tbl) + 1 - k]

\* -------------------------------------------------------------------------
\* Notification delivery (notify/sender.py, notify/runner.py)
\* -------------------------------------------------------------------------

\* Mutant: the recipient is left out of the hashed text.
generate_dedupe_key_NoRecipient(saved_search_id, run_id, channel, recipient) ==
    <<ToString(saved_search_id), ":", ToString(run_id), ":">> \o channel

\* sha256 of f"{saved_search_id}:{run_id}:{channel}:{recipient}": the two
\* numbers in decimal, then the characters of channel and of recipient, with
\* colons between.
generate_dedupe_key(saved_search_id, run_id, channel, recipient) ==
    <<ToString(saved_search_id), ":", ToString(run_id), ":">>
      \o channel \o <<":">> \o recipient

\* What one send_notification call can do.  Slack turns a non-200 answer or an
\* httpx.RequestError into NotificationError.  Email turns incomplete SMTP
\* settings or an smtplib.SMTPException into NotificationError, while a failed
\* connection (smtplib.SMTP(host, port) raising an OSError such as
\* ConnectionRefusedError) is not caught.  Any other channel is refused.
SendOutcomes(channel) ==
    IF channel = "slack" THEN {"ok", "NotificationError"}
    ELSE IF channel = "email" THEN {"ok", "NotificationError", "OSError"}
    ELSE {"NotificationError"}

\* send_slack_notification and send_email_notification return at once,
\* sending nothing, when the batch is empty.
NothingToSend(ctx) ==
    ctx.notify_items = <<>> /\ ctx.channel \in {"slack", "email"}

\* The body of the recipient loop after send_notification has returned or
\* raised: the notification row written and the lists appended to.
\* create_notification raises sqlite3.IntegrityError when the dedupe_key is
\* already stored; an exception other than NotificationError leaves the loop.
SendRecord(st, ctx, recipient, outcome, key, dup, tried, now) ==
    IF outcome = "ok"
    THEN IF dup
         THEN [st EXCEPT !.attempts = tried, !.raised = "IntegrityError"]
         ELSE [st EXCEPT
                 !.attempts = tried,
                 !.notifs = Append(@, create_notification(ctx.run_id,
                               ctx.channel, recipient, "ok", key, Null, now)),
                 !.notified = Append(@, <<ctx.channel, recipient>>)]
    ELSE IF outcome = "NotificationError"
    THEN IF dup
         THEN [st EXCEPT !.attempts = tried,
                         !.errors = Append(@, recipient),
                         !.raised = "IntegrityError"]
         ELSE [st EXCEPT
                 !.attempts = tried,
                 !.errors = Append(@, recipient),
                 !.notifs = Append(@, create_notification(ctx.run_id,
                               ctx.channel, recipient, "failed", key,
                               "NotificationError", now))]
    ELSE [st EXCEPT !.attempts = tried, !.raised = outcome]

\* The delivery to one recipient, recorded in st.attempts unless nothing was
\* sent.
SendAttempt(st, ctx, recipient, outcome, key, now) ==
    SendRecord(st, ctx, recipient, outcome, key,
               \E n \in DOMAIN st.notifs : st.notifs[n].dedupe_key = key,
               IF NothingToSend(ctx) THEN st.attempts
               ELSE Append(st.attempts,
                           [ run_id |-> ctx.run_id, recipient |-> recipient,
                             items |-> ctx.notify_items, outcome |-> outcome ]),
               now)

\* Mutant: the recipient loop delivers in a dry run as well.
SendStep_IgnoresDryRun(st, ctx, recipient, i) == SendAttempt(st, ctx, recipient, "ok", generate_dedupe_key(ctx.saved_search_id, ctx.run_id, <<ctx.channel>>, <<recipient>>), ctx.now + i)

\* One turn of the recipient loop: a dry run only lists the recipient.
SendStep(st, ctx, recipient, i) ==
    IF ctx.dry_run
    THEN [st EXCEPT !.notified = Append(@, <<ctx.channel, recipient>>)]
    ELSE SendAttempt(st, ctx, recipient,
                     IF NothingToSend(ctx) THEN "ok" ELSE ctx.outcomes[i],
                     generate_dedupe_key(ctx.saved_search_id, ctx.run_id,
                                         <<ctx.channel>>, <<recipient>>),
                     ctx.now + i)

\* The recipient loop of _send_notifications from recipient i on.  st carries
\* the notification table, notified_channels, errors, the deliveries attempted
\* and the exception that left the loop, if any.
RECURSIVE SendLoop(_, _, _)
SendLoop(st, i, ctx) ==
    IF i > Len(ctx.recipients) \/ st.raised # Null THEN st
    ELSE SendLoop(SendStep(st, ctx, ctx.recipients[i], i), i + 1, ctx)

\* return None, "...", [] when no recipient is configured
NoRecipientsStatus == Null

\* "partial" if notified_channels else "failed" when errors, else "ok"
NotifyStatus(notified, errors) ==
    IF errors # <<>>
    THEN (IF notified # <<>> THEN "partial" ELSE "failed")
    ELSE "ok"

\* What _send_notifications returns (or lets through) after the loop, and
\* whether it marked the run's hits.
SendReturn(st, dry_run) ==
    [ raised        |-> st.raised,
      notify_status |-> IF st.raised # Null THEN Null
                        ELSE NotifyStatus(st.notified, st.errors),
      notify_error  |-> IF st.raised # Null THEN <<>> ELSE st.errors,
      notified      |-> IF st.raised # Null THEN <<>> ELSE st.notified,
      notifs        |-> st.notifs,
      attempts      |-> st.attempts,
      marked        |-> st.raised = Null /\ st.notified # <<>> /\ ~dry_run ]

\* _send_notifications: what it returns (or the exception it lets through),
\* the notification table it leaves and whether it marked the run's hits.
send_notifications(notifs, ctx) ==
    IF ctx.recipients = <<>>
    THEN [ raised |-> Null, notify_status |-> NoRecipientsStatus,
           notify_error |-> <<"no recipients">>, notified |-> <<>>,
           notifs |-> notifs, attempts |-> <<>>, marked |-> FALSE ]
    ELSE SendReturn(SendLoop([ notifs |-> notifs, notified |-> <<>>,
                               errors |-> <<>>, attempts |-> <<>>,
                               raised |-> Null ], 1, ctx),
                    ctx.dry_run)

\* -------------------------------------------------------------------------
\* SavedSearchRunner.run (notify/runner.py)
\* -------------------------------------------------------------------------

DefaultMaxNotifyItems == 100

\* notify_config=None
NoConfig ==
    [ present |-> FALSE, enabled |-> FALSE, channel |-> "slack",
      recipients |-> <<>>, max_items |-> DefaultMaxNotifyItems ]

\* notify_config as a dict
NotifyConfig(channel, recipients, max_items, enabled) ==
    [ present |-> TRUE, enabled |-> enabled, channel |-> channel,
      recipients |-> recipients, max_items |-> max_items ]

\* items[:max_items]
Take(seq, n) == SubSeq(seq, 1, IF n < Len(seq) THEN n ELSE Len(seq))

\* The places where a store call inside run()'s try block can raise
\* (sqlite3.OperationalError and the like): the search, the insert of a hit,
\* the update that finalizes the run, the update of last_run_at.
Faults == {"none", "search", "hit", "finalize", "last_run"}

\* Mutant: the previous hits are removed whatever only_new says.
RunNewItems_AlwaysDiff(saved_search_id, dry_run, runTbl) ==
    LET found == search_items(items)
        previous_ids == get_previous_hit_item_ids(hits, runTbl, saved_search_id)
        IsUnseen(id) == id \notin previous_ids
    IN IF ~dry_run THEN SelectSeq(found, IsUnseen) ELSE found

\* new_items of a run started now: the search result, less the previous hits
\* of the saved search when only_new is set and the run is not a dry run.
RunNewItems(saved_search_id, dry_run, runTbl) ==
    LET found == search_items(items)
        previous_ids == get_previous_hit_item_ids(hits, runTbl, saved_search_id)
        IsUnseen(id) == id \notin previous_ids
    IN IF saved_search(saved_search_id).only_new /\ ~dry_run
       THEN SelectSeq(found, IsUnseen)
       ELSE found

\* Mutant: the guard forgets to look at new_items.
WantsNotify_IgnoresNewItems(notify, new_items, cfg) ==
    notify /\ cfg.present /\ cfg.enabled

\* The condition guarding the call of _send_notifications.
WantsNotify(notify, new_items, cfg) ==
    notify /\ new_items # <<>> /\ cfg.present /\ cfg.enabled

\* The run table after create_saved_search_run; a dry run creates no row.
RunsCreated(saved_search_id, dry_run) ==
    IF dry_run THEN runs
    ELSE Append(runs, create_saved_search_run(saved_search_id))

\* The end of run(): the update that finalizes the run row and the one of
\* last_run_at, or the except branch, which rewrites the row as failed with
\* hit_count 0; and the dictionary returned.  The result is the tables the
\* execution leaves and the record of what it did.
RunEnded(in, runs1, found, previous_ids, new_items, hits1, sent, raised_at) ==
    LET error == IF raised_at = "notify" THEN sent.raised
                 ELSE "OperationalError"
        finalized == update_saved_search_run(runs1, in.run_id, Len(new_items),
                         "ok", Null, sent.notified, sent.notify_status,
                         sent.notify_error)
    IN [ runs |-> IF in.dry_run THEN runs
                  ELSE IF raised_at = Null THEN finalized
                  ELSE update_saved_search_run(
                         IF raised_at = "last_run" THEN finalized ELSE runs1,
                         in.run_id, 0, "failed", error, <<>>, Null, <<>>),
         hits |-> IF in.dry_run \/ raised_at = "search" THEN hits
                  ELSE IF sent.marked /\ raised_at # "notify"
                  THEN mark_hits_notified(hits1, in.run_id, in.now)
                  ELSE hits1,
         notifications |-> sent.notifs,
         last_run_at |-> IF ~in.dry_run /\ raised_at = Null
                         THEN [last_run_at EXCEPT ![in.saved_search_id] = in.now]
                         ELSE last_run_at,
         exec |-> [ saved_search_id |-> in.saved_search_id,
                    notify      |-> in.notify,
                    dry_run     |-> in.dry_run,
                    cfg         |-> in.cfg,
                    run_id      |-> in.run_id,
                    store_size  |-> Len(items),
                    raised_at   |-> raised_at,
                    found       |-> IF raised_at = "search" THEN <<>> ELSE found,
                    previous_ids |-> IF raised_at = "search" THEN {}
                                     ELSE previous_ids,
                    new_items   |-> IF raised_at = "search" THEN <<>>
                                    ELSE new_items,
                    attempts    |-> sent.attempts,
                    writes      |-> IF in.dry_run THEN <<>>
                                    ELSE IF raised_at = Null THEN <<"ok">>
                                    ELSE IF raised_at = "last_run"
                                    THEN <<"ok", "failed">>
                                    ELSE <<"failed">>,
                    result      |-> IF raised_at = Null
                                    THEN [ status |-> "ok",
                                           total |-> Len(items),
                                           new |-> Len(new_items),
                                           notified |-> Len(sent.notified) > 0,
                                           notify_status |-> sent.notify_status,
                                           error |-> Null ]
                                    ELSE [ status |-> "failed", total |-> 0,
                                           new |-> 0, notified |-> FALSE,
                                           notify_status |-> Null,
                                           error |-> error ] ] ]

\* After the notification step: where the execution raised, if it did.
RunNotified(in, runs1, found, previous_ids, new_items, hits1, sent) ==
    RunEnded(in, runs1, found, previous_ids, new_items, hits1, sent,
             IF in.fault \in {"search", "hit"} THEN in.fault
             ELSE IF sent.raised # Null THEN "notify"
             ELSE IF in.fault \in {"finalize", "last_run"} THEN in.fault
             ELSE Null)

\* After the diff: the hit rows inserted (k of them when an insert raises)
\* and the notification step, skipped unless WantsNotify.
RunDiffed(in, runs1, found, previous_ids, new_items) ==
    RunNotified(in, runs1, found, previous_ids, new_items,
        hits \o [j \in 1..(IF in.dry_run THEN 0
                           ELSE IF in.fault = "hit" THEN in.k
                           ELSE Len(new_items)) |->
                   create_saved_search_hit(in.run_id, new_items[j])],
        IF in.fault \notin {"search", "hit"}
           /\ WantsNotify(in.notify, new_items, in.cfg)
        THEN send_notifications(notifications,
                 [ saved_search_id |-> in.saved_search_id,
                   run_id |-> in.run_id,
                   channel |-> in.cfg.channel,
                   recipients |-> in.cfg.recipients,
                   dry_run |-> in.dry_run,
                   now |-> in.now,
                   outcomes |-> in.outcomes,
                   notify_items |-> Take(new_items, in.cfg.max_items) ])
        ELSE [ raised |-> Null, notify_status |-> Null,
               notify_error |-> <<>>, notified |-> <<>>,
               notifs |-> notifications, attempts |-> <<>>,
               marked |-> FALSE ])

\* After the run row is created: the search and the diff.
RunSearched(in, runs1) ==
    RunDiffed(in, runs1, search_items(items),
              get_previous_hit_item_ids(hits, runs1, in.saved_search_id),
              RunNewItems(in.saved_search_id, in.dry_run, runs1))

\* One execution of run(notify, dry_run) for a saved search: the tables it
\* leaves, and the record of what it did.  fault names the store call that
\* raises (k hits are written before a failing hit insert); outcomes gives
\* what each send_notification call does.
RunEffect(saved_search_id, notify, dry_run, cfg, outcomes, fault, k) ==
    RunSearched([ saved_search_id |-> saved_search_id, notify |-> notify,
                  dry_run |-> dry_run, cfg |-> cfg, outcomes |-> outcomes,
                  fault |-> fault, k |-> k, now |-> clock + 1,
                  run_id |-> IF dry_run THEN 0 ELSE Len(runs) + 1 ],
                RunsCreated(saved_search_id, dry_run))

\* The tables after the execution, and its record appended to the history.
\* (A fault at the finalizing updates is only reached when nothing raised
\* before them.)
RunCommit(fault, e) ==
    /\ fault \in {"finalize", "last_run"} => e.exec.raised_at = fault
    /\ runs' = e.runs
    /\ hits' = e.hits
    /\ notifications' = e.notifications
    /\ last_run_at' = e.last_run_at
    /\ execs' = Append(execs, e.exec)
    /\ clock' = clock + 1 + Len(e.exec.cfg.recipients)
    /\ UNCHANGED <<items, calls, rounds, auxVars, extVars>>

\* send_notification is called with a non-empty batch.
Delivers(notify, dry_run, cfg, fault, new_items) ==
    /\ fault \notin {"search", "hit"}
    /\ ~dry_run
    /\ WantsNotify(notify, new_items, cfg)
    /\ \/ Take(new_items, cfg.max_items) # <<>>
       \/ cfg.channel \notin {"slack", "email"}

\* The choices the environment makes during the execution.
RunChoices(saved_search_id, notify, dry_run, cfg, fault, new_items) ==
    \E k \in IF fault = "hit" THEN 0..(Len(new_items) - 1) ELSE {0} :
    \E outcomes \in IF Delivers(notify, dry_run, cfg, fault, new_items)
                    THEN [1..Len(cfg.recipients) -> SendOutcomes(cfg.channel)]
                    ELSE {<<>>} :
        RunCommit(fault, RunEffect(saved_search_id, notify, dry_run, cfg,
                                   outcomes, fault, k))

\* run(notify, dry_run) of a SavedSearchRunner(saved_search, notify_config).
Run(saved_search_id, notify, dry_run, cfg, fault) ==
    /\ dry_run => fault \in {"none", "search"}
    /\ RunChoices(saved_search_id, notify, dry_run, cfg, fault,
                  RunNewItems(saved_search_id, dry_run,
                              RunsCreated(saved_search_id, dry_run)))

\* -------------------------------------------------------------------------
\* The diff engine: runs of both saved searches while items are ingested
\* -------------------------------------------------------------------------

\* The notification settings of these runs: one Slack webhook.
DiffConfig == NotifyConfig("slack", <<"r1">>, DefaultMaxNotifyItems, TRUE)

\* An announcement the store has not seen: upsert_item inserts it.
FreshItem == NewItem("kkj", <<ToString(Len(items) + 1)>>, None, <<"a">>)

Ingest ==
    /\ Len(items) < MaxItems
    /\ upsert_item(FreshItem)

RunSavedSearch ==
    /\ Len(execs) < MaxRuns
    /\ \E saved_search_id \in SavedSearchIds, notify \in BOOLEAN, fault \in Faults :
          Run(saved_search_id, notify, FALSE, DiffConfig, fault)

DryRunSavedSearch ==
    /\ Len(execs) < MaxRuns
    /\ \E saved_search_id \in SavedSearchIds, notify \in BOOLEAN :
        Run(saved_search_id, notify, TRUE, DiffConfig, "none")

InitDiff == InitStore

NextDiff == Ingest \/ RunSavedSearch \/ DryRunSavedSearch

SpecDiff == InitDiff /\ [][NextDiff]_vars

\* -------------------------------------------------------------------------
\* The notification dispatcher: runs with notification requested, over both
\* channels and several recipient lists
\* -------------------------------------------------------------------------

NotifyChannels == {"slack", "email"}

\* notify.recipients: none, one, three, and one address listed twice.
RecipientLists ==
    { <<>>, <<"r1">>, <<"r1", "r2", "r3">>, <<"r1", "r1">> }

NotifyConfigs ==
    { NotifyConfig(channel, recipients, DefaultMaxNotifyItems, TRUE) :
        channel \in NotifyChannels, recipients \in RecipientLists }

NotifyRun ==
    /\ Len(execs) < MaxRuns
    /\ \E saved_search_id \in SavedSearchIds, cfg \in NotifyConfigs :
          Run(saved_search_id, TRUE, FALSE, cfg, "none")

NotifyDryRun ==
    /\ Len(execs) < MaxRuns
    /\ \E saved_search_id \in SavedSearchIds, cfg \in NotifyConfigs :
          Run(saved_search_id, TRUE, TRUE, cfg, "none")

InitNotify == InitStore

NextNotify == Ingest \/ NotifyRun \/ NotifyDryRun

SpecNotify == InitNotify /\ [][NextNotify]_vars

\* -------------------------------------------------------------------------
\* The offline retry queue: rounds that re-attempt the notifications returned
\* by get_failed_notifications and record each attempt
\* -------------------------------------------------------------------------

\* How a re-attempted delivery ends.
RetryOutcomes == { "ok", "failed" }

\* One retry round: the failed, under-budget notifications are read, one of
\* them is re-attempted and the attempt is recorded.  (A round that
\* re-attempts several of the rows it read is this round repeated: the rows
\* it has not touched are returned again.)
RetryRound ==
    /\ Len(rounds) < MaxRounds
    /\ \E max_attempts \in {MaxAttempts} :
       \E returned \in get_failed_notifications(notifications, max_attempts) :
       \E i \in DOMAIN returned, status \in RetryOutcomes :
          /\ notifications' =
                update_notification_status(notifications, returned[i], status,
                    IF status = "ok" THEN Null ELSE "NotificationError",
                    clock + 1)
          /\ rounds' = Append(rounds, [ max_attempts |-> max_attempts,
                                        returned |-> returned,
                                        notification_id |-> returned[i],
                                        status |-> status,
                                        before |-> notifications,
                                        after |-> notifications' ])
          /\ clock' = clock + 1
          /\ UNCHANGED <<items, calls, runs, hits, last_run_at, execs, auxVars, extVars>>

\* The notification settings of the runs that feed the retry queue: a Slack
\* run notifies two webhooks, or one webhook listed twice.
RetryConfigs ==
    { NotifyConfig("slack", recipients, DefaultMaxNotifyItems, TRUE) :
        recipients \in { <<"r1", "r2">>, <<"r1", "r1">> } }

\* A run of the saved search without only_new, so that every run notifies.
RetryFeedRun ==
    /\ Len(execs) < MaxRuns
    /\ \E cfg \in RetryConfigs : Run(2, TRUE, FALSE, cfg, "none")

\* The store receives its first announcement.
FirstIngest ==
    /\ items = <<>>
    /\ upsert_item(FreshItem)

InitRetry == InitStore

NextRetry == FirstIngest \/ RetryFeedRun \/ RetryRound

SpecRetry == InitRetry /\ [][NextRetry]_vars

\* -------------------------------------------------------------------------
\* generate_dedupe_key called on its own
\* -------------------------------------------------------------------------

MaxKeyCalls == 2

\* Channel names and recipient addresses as texts; an address may contain the
\* separator.
KeyChannels == { <<"s">>, <<"e">> }

KeyRecipients ==
    { <<"a">>, <<"b">>, <<":">>, <<"a", ":">>, <<":", "a">>, <<"a", "b">> }

KeyCall ==
    /\ Len(keys) < MaxKeyCalls
    /\ \E saved_search_id \in SavedSearchIds, run_id \in 1..MaxRuns,
          channel \in KeyChannels, recipient \in KeyRecipients :
          keys' = Append(keys, [ saved_search_id |-> saved_search_id,
                                 run_id |-> run_id,
                                 channel |-> channel,
                                 recipient |-> recipient,
                                 key |-> generate_dedupe_key(saved_search_id,
                                             run_id, channel, recipient) ])
    /\ UNCHANGED <<upsertVars, runnerVars, gen, ingest, norm, extVars>>

InitKeys == InitStore

NextKeys == KeyCall

SpecKeys == InitKeys /\ [][NextKeys]_vars

\* -------------------------------------------------------------------------
\* date_range_generator and estimate_chunks (ingest/full_ingest.py)
\* -------------------------------------------------------------------------

\* The last day, counted from 2025-01-01, a range may reach.
MaxDay == 33

\* The largest days_per_chunk tried.
MaxChunkDays == 8

\* A date text "2025-MM-DD" is the triple <<2025, MM, DD>>.  The days of the
\* months of 2025 before month m.
DaysBeforeMonth(m) ==
    IF m = 1 THEN 0 ELSE IF m = 2 THEN 31 ELSE IF m = 3 THEN 59 ELSE 90

\* datetime.strptime(text, "%Y-%m-%d"), as the number of the day in 2025.
strptime(text) == DaysBeforeMonth(text[2]) + text[3]

\* dt.strftime("%Y-%m-%d"); a day before 2025-01-01 falls in December 2024.
strftime(day) ==
    IF day <= 0
    THEN << 2024, 12, 31 + day >>
    ELSE LET m == CHOOSE k \in 1..4 :
                      DaysBeforeMonth(k) < day /\ day <= DaysBeforeMonth(k + 1)
         IN << 2025, m, day - DaysBeforeMonth(m) >>

\* The dates a range can start or end at.
DateTexts == { strftime(day) : day \in 1..MaxDay }

\* min(a, b) on datetimes
MinDay(a, b) == IF a <= b THEN a ELSE b

\* Mutant: the chunk end is not clipped to end_date.
ChunkEnd_Unclipped(current, end, days_per_chunk) ==
    current + (days_per_chunk - 1)

\* chunk_end = min(current + timedelta(days=days_per_chunk - 1), end)
ChunkEnd(current, end, days_per_chunk) ==
    MinDay(current + (days_per_chunk - 1), end)

\* Mutant: the next chunk starts on the day the previous one ended.
NextChunkStart_SameDay(chunk_end) == chunk_end

\* current = chunk_end + timedelta(days=1)
NextChunkStart(chunk_end) == chunk_end + 1

\* estimate_chunks: (total_days + days_per_chunk - 1) // days_per_chunk
estimate_chunks(start_date, end_date, days_per_chunk) ==
    LET total_days == (strptime(end_date) - strptime(start_date)) + 1
    IN (total_days + days_per_chunk - 1) \div days_per_chunk

\* date_range_generator(start_date, end_date, days_per_chunk) is created:
\* nothing runs until the first next().
GenCreate ==
    /\ gen.state = "idle"
    /\ \E start_date \in DateTexts, end_date \in DateTexts,
          days_per_chunk \in 1..MaxChunkDays :
          /\ strptime(start_date) <= strptime(end_date)
          /\ gen' = [ state |-> "running",
                      start_date |-> start_date,
                      end_date |-> end_date,
                      days_per_chunk |-> days_per_chunk,
                      current |-> strptime(start_date),
                      end |-> strptime(end_date),
                      yielded |-> <<>> ]
    /\ UNCHANGED <<upsertVars, runnerVars, keys, ingest, norm, extVars>>

\* One turn of the while loop: the next chunk is yielded.
GenYield ==
    /\ gen.state = "running"
    /\ gen.current <= gen.end
    /\ gen' = [ gen EXCEPT
                  !.yielded = Append(@,
                      << strftime(gen.current),
                         strftime(ChunkEnd(gen.current, gen.end,
                                           gen.days_per_chunk)) >>),
                  !.current = NextChunkStart(ChunkEnd(gen.current, gen.end,
                                                      gen.days_per_chunk)) ]
    /\ UNCHANGED <<upsertVars, runnerVars, keys, ingest, norm, extVars>>

\* The loop condition fails: the generator is exhausted.
GenReturn ==
    /\ gen.state = "running"
    /\ gen.current > gen.end
    /\ gen' = [ gen EXCEPT !.state = "exhausted" ]
    /\ UNCHANGED <<upsertVars, runnerVars, keys, ingest, norm, extVars>>

InitChunks == InitStore

NextChunks == GenCreate \/ GenYield \/ GenReturn

SpecChunks == InitChunks /\ [][NextChunks]_vars

\* The turns of the loop followed while the cursor does not advance.
MaxYields == 3

\* The values of days_per_chunk a caller can pass: the argument is an int
\* that nothing validates (cli/main.py passes --days as given).
AnyChunkDays == (0 - 1)..2

\* date_range_generator(start_date, end_date, days_per_chunk) is created with
\* any dates and any days_per_chunk.
GenCreateAny ==
    /\ gen.state = "idle"
    /\ \E start_date \in DateTexts, end_date \in DateTexts,
          days_per_chunk \in AnyChunkDays :
          gen' = [ state |-> "running",
                   start_date |-> start_date,
                   end_date |-> end_date,
                   days_per_chunk |-> days_per_chunk,
                   current |-> strptime(start_date),
                   end |-> strptime(end_date),
                   yielded |-> <<>> ]
    /\ UNCHANGED <<upsertVars, runnerVars, keys, ingest, norm, extVars>>

\* One turn of the while loop; a loop whose cursor does not advance is
\* followed for MaxYields turns.
GenYieldAny ==
    /\ gen.state = "running"
    /\ gen.days_per_chunk >= 1 \/ Len(gen.yielded) < MaxYields
    /\ GenYield

InitGenAny == InitStore

NextGenAny == GenCreateAny \/ GenYieldAny \/ GenReturn

SpecGenAny == InitGenAny /\ [][NextGenAny]_vars

\* -------------------------------------------------------------------------
\* normalize_kkj_results and normalize_pportal_results (ingest/normalizer.py)
\* -------------------------------------------------------------------------

\* The most records one batch handed to a normalizer holds.
MaxRecords == 5

\* A parsed KKJ record; the fields the normalizer does not branch on are
\* fixed (organization_name "o", no dates, no description).
KKJSearchResult(key, external_document_uri, project_name) ==
    [ key |-> key,
      external_document_uri |-> external_document_uri,
      project_name |-> project_name ]

\* A scraped procurement-portal record, likewise.
PPortalSearchResult(case_number, detail_url, title) ==
    [ case_number |-> case_number, detail_url |-> detail_url, title |-> title ]

NormalizationError == "NormalizationError"

\* normalize_kkj_result: the Item, or the exception it raises.
normalize_kkj_result(result, source) ==
    IF ~Truthy(result.project_name)
    THEN [ raised |-> TRUE, error |-> NormalizationError ]
    ELSE [ raised |-> FALSE,
           item |-> NewItem(source, result.key, result.external_document_uri,
                            result.project_name) ]

\* normalize_pportal_result: the content hash is taken over detail_url as
\* scraped, the Item carries detail_url or "" and an empty body.
normalize_pportal_result(result, source) ==
    IF ~Truthy(result.title)
    THEN [ raised |-> TRUE, error |-> NormalizationError ]
    ELSE [ raised |-> FALSE,
           item |-> [ NewItem(source, result.case_number, result.detail_url,
                              result.title)
                      EXCEPT !.url = IF Truthy(result.detail_url)
                                     THEN result.detail_url ELSE <<>>,
                             !.body = <<>> ] ]

\* Mutant: the loop of normalize_kkj_results gives up at the first record
\* that fails.
RECURSIVE KkjLoop_StopsAtError(_, _, _, _)
KkjLoop_StopsAtError(results, source, items_, errors) ==
    IF results = <<>>
    THEN [ items |-> items_, errors |-> errors ]
    ELSE IF ~Truthy(Head(results).project_name)
         THEN [ items |-> items_,
                errors |-> Append(errors, <<Head(results), NormalizationError>>) ]
         ELSE KkjLoop_StopsAtError(Tail(results), source,
                  Append(items_, NewItem(source, Head(results).key,
                                         Head(results).external_document_uri,
                                         Head(results).project_name)),
                  errors)

\* for result in results: try: items.append(normalize_kkj_result(...))
\* except Exception as e: errors.append((result, e))
RECURSIVE KkjLoop(_, _, _, _)
KkjLoop(results, source, items_, errors) ==
    IF results = <<>>
    THEN [ items |-> items_, errors |-> errors ]
    ELSE LET r == normalize_kkj_result(Head(results), source)
         IN IF r.raised
            THEN KkjLoop(Tail(results), source, items_,
                         Append(errors, <<Head(results), r.error>>))
            ELSE KkjLoop(Tail(results), source, Append(items_, r.item), errors)

\* Mutant: normalize_kkj_results gives up at the first record that fails.
normalize_kkj_results_StopsAtError(results, source) ==
    KkjLoop_StopsAtError(results, source, <<>>, <<>>)

normalize_kkj_results(results, source) == KkjLoop(results, source, <<>>, <<>>)

\* The same loop over normalize_pportal_result.
RECURSIVE PPortalLoop(_, _, _, _)
PPortalLoop(results, source, items_, errors) ==
    IF results = <<>>
    THEN [ items |-> items_, errors |-> errors ]
    ELSE LET r == normalize_pportal_result(Head(results), source)
         IN IF r.raised
            THEN PPortalLoop(Tail(results), source, items_,
                             Append(errors, <<Head(results), r.error>>))
            ELSE PPortalLoop(Tail(results), source, Append(items_, r.item),
                             errors)

normalize_pportal_results(results, source) ==
    PPortalLoop(results, source, <<>>, <<>>)

\* The records a batch is made of: two that normalize and one without a
\* title, per source.
KkjRecords ==
    { KKJSearchResult(<<"1">>, <<"u">>, <<"a">>),
      KKJSearchResult(<<"2">>, None, <<"b">>),
      KKJSearchResult(<<"3">>, <<"w">>, <<>>) }

PPortalRecords ==
    { PPortalSearchResult(<<"1">>, <<"u">>, <<"a">>),
      PPortalSearchResult(<<"2">>, None, <<"b">>),
      PPortalSearchResult(<<"3">>, <<"w">>, None) }

Batches(records) == UNION { [1..n -> records] : n \in 0..MaxRecords }

\* One call of normalize_kkj_results; norm keeps the latest call.
NormalizeKkj ==
    /\ norm.fn = "none"
    /\ \E results \in Batches(KkjRecords) :
          norm' = [ fn |-> "kkj", results |-> results,
                    out |-> normalize_kkj_results(results, "kkj") ]
    /\ UNCHANGED <<upsertVars, runnerVars, keys, gen, ingest, extVars>>

\* One call of normalize_pportal_results.
NormalizePPortal ==
    /\ norm.fn = "none"
    /\ \E results \in Batches(PPortalRecords) :
          norm' = [ fn |-> "pportal", results |-> results,
                    out |-> normalize_pportal_results(results, "pportal") ]
    /\ UNCHANGED <<upsertVars, runnerVars, keys, gen, ingest, extVars>>

InitNormalize == InitStore

NextNormalize == NormalizeKkj \/ NormalizePPortal

SpecNormalize == InitNormalize /\ [][NextNormalize]_vars

\* -------------------------------------------------------------------------
\* run_full_ingest (ingest/full_ingest.py)
\* -------------------------------------------------------------------------

\* The most chunks the plan of one run_full_ingest call has.
MaxChunks == 2

\* upsert_item as a function of the table: the outcomes one call can have.
UpsertOutcomes(tbl, item, now) ==
    LET found == ExistingIds(tbl, item)
        inserted == Append(tbl, InsertedRow(item, now))
    IN IF found # {}
       THEN { LET updated == [tbl EXCEPT ![id] = UpdatedRow(tbl[id], item, now)]
              IN IF UniqueIndexesHold(updated)
                 THEN [ tbl |-> updated, raised |-> FALSE, is_new |-> FALSE ]
                 ELSE [ tbl |-> tbl, raised |-> TRUE, is_new |-> FALSE ]
              : id \in found }
       ELSE { IF UniqueIndexesHold(inserted)
              THEN [ tbl |-> inserted, raised |-> FALSE, is_new |-> TRUE ]
              ELSE [ tbl |-> tbl, raised |-> TRUE, is_new |-> FALSE ] }

\* One turn of "for item in items: try: upsert_item(item) ... except
\* Exception: logger.error(...)".  logged counts the logger.error calls.
SaveItem(st, item) ==
    { [ tbl           |-> o.tbl,
        now           |-> st.now + 1,
        new_count     |-> st.new_count + (IF ~o.raised /\ o.is_new THEN 1 ELSE 0),
        updated_count |-> st.updated_count
                            + (IF ~o.raised /\ ~o.is_new THEN 1 ELSE 0),
        attempted     |-> st.attempted + 1,
        logged        |-> st.logged + (IF o.raised THEN 1 ELSE 0) ]
      : o \in UpsertOutcomes(st.tbl, item, st.now + 1) }

RECURSIVE SaveItems(_, _)
SaveItems(its, st) ==
    IF its = <<>> THEN {st}
    ELSE UNION { SaveItems(Tail(its), nxt) : nxt \in SaveItem(st, Head(its)) }

\* What _process_chunk returns once the item loop ended in st.
ChunkCounts(response, normalized, st) ==
    [ api_hits |-> response.search_hits,
      fetched  |-> Len(response.results),
      new      |-> st.new_count,
      updated  |-> st.updated_count,
      errors   |-> Len(normalized.errors) ]

\* _process_chunk after client.search returned response: the table, the
\* clock and the dict it can end with.
process_chunk(tbl, now, source, response, dry_run) ==
    LET normalized == normalize_kkj_results(response.results, source)
        start == [ tbl |-> tbl, now |-> now, new_count |-> 0,
                   updated_count |-> 0, attempted |-> 0, logged |-> 0 ]
        ends == IF dry_run
                THEN { [start EXCEPT !.new_count = Len(normalized.items)] }
                ELSE SaveItems(normalized.items, start)
    IN { [ tbl |-> st.tbl, now |-> st.now,
           attempted |-> st.attempted, logged |-> st.logged,
           chunk_result |-> ChunkCounts(response, normalized, st) ]
         : st \in ends }

\* FullIngestResult()
FullIngestResult ==
    [ total_fetched |-> 0, total_new |-> 0, total_updated |-> 0,
      total_errors |-> 0, total_api_hits |-> 0, chunks_processed |-> 0,
      chunk_results |-> <<>> ]

Max2(a, b) == IF a >= b THEN a ELSE b

\* Mutant: the reported totals of the chunks are added up.
add_chunk_result_SumsApiHits(result, from_date, to_date, c) ==
    [ total_api_hits   |-> result.total_api_hits + c.api_hits,
      total_fetched    |-> result.total_fetched + c.fetched,
      total_new        |-> result.total_new + c.new,
      total_updated    |-> result.total_updated + c.updated,
      total_errors     |-> result.total_errors + c.errors,
      chunks_processed |-> result.chunks_processed + 1,
      chunk_results    |-> Append(result.chunk_results,
                             [ from |-> from_date, to |-> to_date,
                               api_hits |-> c.api_hits, fetched |-> c.fetched,
                               new |-> c.new, updated |-> c.updated,
                               errors |-> c.errors ]) ]

\* FullIngestResult.add_chunk_result; c carries api_hits, fetched, new,
\* updated and errors.
add_chunk_result(result, from_date, to_date, c) ==
    [ total_api_hits   |-> Max2(result.total_api_hits, c.api_hits),
      total_fetched    |-> result.total_fetched + c.fetched,
      total_new        |-> result.total_new + c.new,
      total_updated    |-> result.total_updated + c.updated,
      total_errors     |-> result.total_errors + c.errors,
      chunks_processed |-> result.chunks_processed + 1,
      chunk_results    |-> Append(result.chunk_results,
                             [ from |-> from_date, to |-> to_date,
                               api_hits |-> c.api_hits, fetched |-> c.fetched,
                               new |-> c.new, updated |-> c.updated,
                               errors |-> c.errors ]) ]

\* Mutant: a failed chunk is recorded without an error.
FailedChunk_NoError ==
    [ api_hits |-> 0, fetched |-> 0, new |-> 0, updated |-> 0, errors |-> 0 ]

\* The except branch of run_full_ingest: api_hits=0, fetched=0, new=0,
\* updated=0, errors=1.
FailedChunk ==
    [ api_hits |-> 0, fetched |-> 0, new |-> 0, updated |-> 0, errors |-> 1 ]

\* The parsed records the API answers with.  The third shares its key with
\* the first and its URL with the second; the fourth has no ProjectName.
IngestRecords ==
    { KKJSearchResult(<<"1">>, <<"u">>, <<"a">>),
      KKJSearchResult(<<"2">>, <<"v">>, <<"a">>),
      KKJSearchResult(<<"1">>, <<"v">>, <<"a">>),
      KKJSearchResult(<<"2">>, <<"u">>, <<>>) }

\* KKJAPIResponse: up to two records, and a SearchHits that is the number
\* of records or one more.
IngestResponses ==
    { [ results |-> rs, search_hits |-> Len(rs) + more ] :
        rs \in {<<>>} \cup { <<a>> : a \in IngestRecords }
                      \cup { <<a, b>> : a, b \in IngestRecords },
        more \in {0, 1} }

IngestStartDates == { <<2025, 1, 30>> }

\* run_full_ingest(query, start_date, end_date, days_per_chunk, dry_run) is
\* called: result = FullIngestResult(), the generator is created.
FullIngestStart ==
    /\ ingest.state = "idle"
    /\ \E start_date \in IngestStartDates, end_date \in DateTexts,
          days_per_chunk \in 1..MaxChunkDays, dry_run \in BOOLEAN :
          /\ estimate_chunks(start_date, end_date, days_per_chunk) <= MaxChunks
          /\ ingest' = [ state |-> "running",
                         source |-> "kkj",
                         start_date |-> start_date,
                         end_date |-> end_date,
                         days_per_chunk |-> days_per_chunk,
                         dry_run |-> dry_run,
                         current |-> strptime(start_date),
                         end |-> strptime(end_date),
                         result |-> FullIngestResult,
                         raw_fetches |-> 0,
                         trace |-> <<>> ]
    /\ UNCHANGED <<upsertVars, runnerVars, keys, gen, norm, extVars>>

\* The most records one response carries: params.Count, which is 1000 in
\* the code and is also the fetched count at which run_full_ingest warns.
\* The model keeps both at this size.
MaxCount == 2

\* Mutant: a chunk that reached the cap is followed by a chunk that starts
\* on the capped chunk's last day.
CursorAfterChunk_RefetchesAtCap(chunk_end, chunk_result) == IF chunk_result.fetched >= MaxCount THEN chunk_end ELSE chunk_end + 1

\* The cursor of date_range_generator after a chunk was processed: the
\* generator is resumed whatever _process_chunk returned.
CursorAfterChunk(chunk_end, chunk_result) == NextChunkStart(chunk_end)

\* One turn of the for loop in which _process_chunk returns, after
\* client.search answered with one of responses.  warned records the
\* logger.warning call.
IngestChunkOf(responses) ==
    /\ ingest.state = "running"
    /\ ingest.current <= ingest.end
    /\ LET chunk_end == ChunkEnd(ingest.current, ingest.end,
                                 ingest.days_per_chunk)
       IN \E response \in responses :
          \E done \in process_chunk(items, clock, ingest.source, response,
                                    ingest.dry_run) :
             /\ items' = done.tbl
             /\ clock' = done.now
             /\ ingest' = [ ingest EXCEPT
                   !.current = CursorAfterChunk(chunk_end, done.chunk_result),
                   !.raw_fetches = IF ingest.dry_run THEN @ ELSE @ + 1,
                   !.result = add_chunk_result(@, strftime(ingest.current),
                                  strftime(chunk_end), done.chunk_result),
                   !.trace = Append(@, [ raised |-> FALSE,
                                         response |-> response,
                                         attempted |-> done.attempted,
                                         logged |-> done.logged,
                                         warned |-> done.chunk_result.fetched
                                                      >= MaxCount ]) ]
    /\ UNCHANGED <<calls, runnerVars, keys, gen, norm, extVars>>

FullIngestChunk == IngestChunkOf(IngestResponses)

\* One turn of the for loop in which _process_chunk raises: client.search
\* (transport, HTTP status, XML or SearchHits parsing) or save_raw_fetch
\* fails, before any item is touched.
FullIngestChunkFails ==
    /\ ingest.state = "running"
    /\ ingest.current <= ingest.end
    /\ LET chunk_end == ChunkEnd(ingest.current, ingest.end,
                                 ingest.days_per_chunk)
       IN ingest' = [ ingest EXCEPT
             !.current = NextChunkStart(chunk_end),
             !.result = add_chunk_result(@, strftime(ingest.current),
                                         strftime(chunk_end), FailedChunk),
             !.trace = Append(@, [ raised |-> TRUE ]) ]
    /\ UNCHANGED <<upsertVars, runnerVars, keys, gen, norm, extVars>>

\* The generator is exhausted: run_full_ingest returns result.
FullIngestReturn ==
    /\ ingest.state = "running"
    /\ ingest.current > ingest.end
    /\ ingest' = [ ingest EXCEPT !.state = "returned" ]
    /\ UNCHANGED <<upsertVars, runnerVars, keys, gen, norm, extVars>>

InitFullIngest == InitStore

NextFullIngest ==
    FullIngestStart \/ FullIngestChunk \/ FullIngestChunkFails \/ FullIngestReturn

SpecFullIngest == InitFullIngest /\ [][NextFullIngest]_vars

\* -------------------------------------------------------------------------
\* generate_content_hash called on texts and their variants (core/database.py)
\* -------------------------------------------------------------------------

\* The full-width or ideographic form of a character, where it has one.
WideOf(c) ==
    CASE c = "a" -> "FW_a"
      [] c = "b" -> "FW_b"
      [] c = " " -> "IDEO_SP"
      [] OTHER -> c

\* The texts that differ from s by one more leading or trailing blank, one
\* whitespace run made longer, one space turned into a newline, or one
\* character turned into its width variant; and s itself.
Variants(s) ==
    IF s = None THEN {None}
    ELSE {s, <<" ">> \o s, s \o <<" ">>}
         \cup { SubSeq(s, 1, i) \o <<s[i]>> \o SubSeq(s, i + 1, Len(s)) :
                  i \in { j \in DOMAIN s : IsSpace(s[j]) } }
         \cup { [s EXCEPT ![i] = "\n"] : i \in { j \in DOMAIN s : s[j] = " " } }
         \cup { [s EXCEPT ![i] = WideOf(s[i])] : i \in DOMAIN s }

\* Field tuples <<title, organization_name, published_at, deadline_at, url,
\* source_item_id>> as the normalizers pass them.
HashTuples ==
    { <<title, <<"o">>, published_at, None, url, source_item_id>> :
        title \in { <<"a">>, <<"a", " ", "b">> },
        published_at \in { None, <<"d", " ", "e">> },
        url \in { None, <<"u">> },
        source_item_id \in { None, <<>>, <<"1">> } }

HashOf(t) == generate_content_hash(t[1], t[2], t[3], t[4], t[5], t[6])

\* generate_content_hash is called on a field tuple and on the tuple with
\* one field replaced by a variant; normalize_string is applied to each
\* field of the second tuple, and again to its own results.
HashPair ==
    /\ hashed.state = "idle"
    /\ \E first \in HashTuples :
       \E f \in DOMAIN first :
       \E v \in Variants(first[f]) :
          LET second == [first EXCEPT ![f] = v]
              once == [i \in DOMAIN second |-> normalize_string(second[i])]
          IN hashed' = [ state |-> "done",
                         first |-> first,
                         second |-> second,
                         field |-> f,
                         hash_first |-> HashOf(first),
                         hash_second |-> HashOf(second),
                         normalized |-> once,
                         renormalized |->
                             [i \in DOMAIN once |-> normalize_string(once[i])] ]
    /\ UNCHANGED <<upsertVars, runnerVars, auxVars, cycle, kkj, pportal>>

InitHash == InitStore

NextHash == HashPair

SpecHash == InitHash /\ [][NextHash]_vars

\* -------------------------------------------------------------------------
\* One announcement fetched twice (ingest/normalizer.py, core/database.py)
\* -------------------------------------------------------------------------

\* The Item normalize_kkj_result builds from a record with the given Key,
\* ExternalDocumentURI, ProjectName and OrganizationName.
AnnouncementItem(sid, url, title, organization_name) ==
    [ NewItem("kkj", sid, url, title)
      EXCEPT !.organization_name = organization_name,
             !.content_hash = generate_content_hash(title, organization_name,
                                                    None, None, url, sid) ]

AnnouncementTitle == <<"a", " ", "b">>

AnnouncementOrganization == <<"o">>

\* The announcement as the source can spell it: its title, organization and
\* URL in any of their variants, its key absent, empty or "1".
AnnouncementItems(sid, url) ==
    { AnnouncementItem(sid, u, t, o) :
        u \in Variants(url),
        t \in Variants(AnnouncementTitle),
        o \in Variants(AnnouncementOrganization) }

AnnouncementSids == { None, <<>>, <<"1">> }

AnnouncementUrls == { None, <<"u">> }

\* Other announcements, with a key and a URL of their own.
OtherItems ==
    { NewItem("kkj", <<"9">>, <<"x">>, <<"z">>),
      NewItem("pportal", <<"1">>, None, <<"z">>) }

\* Another announcement is stored first.
UpsertOther ==
    /\ calls = <<>>
    /\ \E item \in OtherItems : upsert_item(item)

\* The announcement is upserted for the first time.
UpsertFirst ==
    /\ \A j \in DOMAIN calls : calls[j].item \in OtherItems
    /\ \E sid \in AnnouncementSids, url \in AnnouncementUrls :
       \E item \in AnnouncementItems(sid, url) : upsert_item(item)

\* The announcement is upserted a second time, with the same key and any
\* spelling of title, organization and URL.
UpsertSecond ==
    /\ calls # <<>>
    /\ calls[Len(calls)].item \notin OtherItems
    /\ \A j \in 1..(Len(calls) - 1) : calls[j].item \in OtherItems
    /\ \E url \in AnnouncementUrls :
          /\ calls[Len(calls)].item.url \in Variants(url)
          /\ \E item \in AnnouncementItems(
                              calls[Len(calls)].item.source_item_id, url) :
                upsert_item(item)

InitResubmit == InitStore

NextResubmit == UpsertOther \/ UpsertFirst \/ UpsertSecond

SpecResubmit == InitResubmit /\ [][NextResubmit]_vars

\* -------------------------------------------------------------------------
\* A fetch, normalize, upsert cycle and its repetition (_process_chunk)
\* -------------------------------------------------------------------------

\* The most records the payload of one fetch holds.
MaxPayload == 3

\* The payloads the source can answer one request with.
Payloads == UNION { [1..n -> IngestRecords] : n \in 0..MaxPayload }

\* The item loop of _process_chunk as it stands in cycle.
CycleLoop ==
    [ tbl |-> items, now |-> clock, new_count |-> cycle.new_count,
      updated_count |-> cycle.updated_count, attempted |-> cycle.pos,
      logged |-> cycle.logged ]

\* _process_chunk starts: the payload is fetched and normalized.
CycleFetch ==
    /\ cycle.state = "idle"
    /\ \E payload \in Payloads :
          cycle' = [ state |-> "running",
                     payload |-> payload,
                     accepted |-> normalize_kkj_results(payload, "kkj").items,
                     pass |-> 1,
                     crashed |-> FALSE,
                     pos |-> 0, new_count |-> 0, updated_count |-> 0,
                     logged |-> 0 ]
    /\ UNCHANGED <<upsertVars, runnerVars, auxVars, hashed, kkj, pportal>>

\* One turn of the item loop.
CycleUpsert ==
    /\ cycle.state = "running"
    /\ cycle.pos < Len(cycle.accepted)
    /\ \E st \in SaveItem(CycleLoop, cycle.accepted[cycle.pos + 1]) :
          /\ items' = st.tbl
          /\ clock' = st.now
          /\ cycle' = [ cycle EXCEPT !.pos = st.attempted,
                                     !.new_count = st.new_count,
                                     !.updated_count = st.updated_count,
                                     !.logged = st.logged ]
    /\ UNCHANGED <<calls, runnerVars, auxVars, hashed, kkj, pportal>>

\* The process dies between two upserts (every upsert_item commits on its
\* own) and the cycle is started again on the same payload.
CycleCrash ==
    /\ cycle.state = "running"
    /\ cycle.pass = 1
    /\ cycle' = [ cycle EXCEPT !.pass = 2, !.crashed = TRUE, !.pos = 0,
                               !.new_count = 0, !.updated_count = 0,
                               !.logged = 0 ]
    /\ UNCHANGED <<upsertVars, runnerVars, auxVars, hashed, kkj, pportal>>

\* The first cycle returned; the same cycle is run once more in full.
CycleRepeat ==
    /\ cycle.state = "running"
    /\ cycle.pass = 1
    /\ cycle.pos = Len(cycle.accepted)
    /\ cycle' = [ cycle EXCEPT !.pass = 2, !.pos = 0, !.new_count = 0,
                               !.updated_count = 0, !.logged = 0 ]
    /\ UNCHANGED <<upsertVars, runnerVars, auxVars, hashed, kkj, pportal>>

\* The repeated cycle returns its counts.
CycleReturn ==
    /\ cycle.state = "running"
    /\ cycle.pass = 2
    /\ cycle.pos = Len(cycle.accepted)
    /\ cycle' = [ cycle EXCEPT !.state = "done" ]
    /\ UNCHANGED <<upsertVars, runnerVars, auxVars, hashed, kkj, pportal>>

InitCycle == InitStore

NextCycle ==
    CycleFetch \/ CycleUpsert \/ CycleCrash \/ CycleRepeat \/ CycleReturn

SpecCycle == InitCycle /\ [][NextCycle]_vars

\* -------------------------------------------------------------------------
\* KKJClient (ingest/kkj_client.py): rate limit, retry, search
\* -------------------------------------------------------------------------

\* The most calls of search made on one client instance.
MaxSearches == 2

\* time.time() when the client is constructed, in seconds.
Epoch == 10

\* stop_after_attempt(3)
StopAfterAttempt == 3

\* How long the caller rests between two calls, in seconds.
CallerGaps == {0, 3}

\* How long a request of the KKJ client takes: a response arrives within a
\* second, a transport failure (a timeout) takes longer.
KkjDurations(outcome) == IF outcome = "transport" THEN {2} ELSE {1}

\* request_interval: settings.kkj_request_interval (1.0) or the argument.
KkjIntervals == {1, 2}

\* wait_exponential(multiplier=1, min=1, max=10) after the given attempt:
\* 2 ** (attempt - 1), kept within [1, 10].
WaitExponential(attempt) ==
    LET raw == 2 ^ (attempt - 1)
    IN IF raw < 1 THEN 1 ELSE IF raw > 10 THEN 10 ELSE raw

\* KKJClient._wait_for_rate_limit: the time at which it returns.
KkjAfterRateLimit(c) ==
    IF c.last_request_time > 0 /\ c.now - c.last_request_time < c.request_interval
    THEN c.now + (c.request_interval - (c.now - c.last_request_time))
    ELSE c.now

\* KKJClient(request_interval=...)
KkjCreate ==
    /\ kkj.pc = "none"
    /\ \E request_interval \in KkjIntervals :
          kkj' = [ pc |-> "idle", now |-> Epoch,
                   request_interval |-> request_interval,
                   last_request_time |-> 0,
                   attempt |-> 0,
                   requests |-> <<>>,
                   searches |-> <<>> ]
    /\ UNCHANGED <<upsertVars, runnerVars, auxVars, hashed, cycle, pportal>>

\* QueryParams: the anchor fields and one optional field.
QueryParams(query, project_name, organization_name, lg_code, cft_issue_date) ==
    [ Query |-> query, Project_Name |-> project_name,
      Organization_Name |-> organization_name, LG_Code |-> lg_code,
      CFT_Issue_Date |-> cft_issue_date ]

\* The parameters the caller searches with.
KkjParams ==
    { QueryParams("", "", "", "", ""),
      QueryParams("", "", "", "", "2025-01-01/"),
      QueryParams("x", "", "", "", "2025-01-01/"),
      QueryParams("", "", "", "13", "") }

\* any([params.Query, params.Project_Name, params.Organization_Name,
\*      params.LG_Code])
HasAnchor(params) ==
    \/ params.Query # ""
    \/ params.Project_Name # ""
    \/ params.Organization_Name # ""
    \/ params.LG_Code # ""

\* The dictionary _build_params fills when nothing stops it.
ApiParams(params) ==
    { <<name, params[name]>> : name \in { n \in DOMAIN params : params[n] # "" } }

build_params_NoAnchorCheck(params) == [ raised |-> "", result |-> { <<n, params[n]>> : n \in { m \in DOMAIN params : params[m] # "" } } ]

\* KKJClient._build_params: KKJAPIError when no anchor field is given.
build_params(params) ==
    IF ~HasAnchor(params)
    THEN [ raised |-> "KKJAPIError", result |-> {} ]
    ELSE [ raised |-> "", result |-> ApiParams(params) ]

\* search(params): _build_params raises, or _fetch is entered.
KkjSearch ==
    /\ kkj.pc = "idle"
    /\ Len(kkj.searches) < MaxSearches
    /\ \E gap \in CallerGaps, params \in KkjParams :
          LET api_params == build_params(params)
              raised == api_params.raised # ""
          IN kkj' = [ kkj EXCEPT
                        !.pc = IF raised THEN "idle" ELSE "fetch",
                        !.now = @ + gap,
                        !.attempt = IF raised THEN 0 ELSE 1,
                        !.searches = Append(@,
                            [ params |-> params, called_at |-> kkj.now + gap,
                              last_request_time_before |-> kkj.last_request_time,
                              api_params |-> api_params.result,
                              requests_before |-> Len(kkj.requests),
                              outcome |-> IF raised THEN "KKJAPIError"
                                          ELSE "pending",
                              status_code |-> Null ]) ]
    /\ UNCHANGED <<upsertVars, runnerVars, auxVars, hashed, cycle, pportal>>

\* The client after one attempt of _fetch: the rate limit is waited for, the
\* GET takes duration seconds; a transport failure leaves _last_request_time
\* alone, a response sets it to the time the response arrived.  A failure
\* is retried after the backoff until the third attempt, which re-raises.
KkjAttempted(c, duration, outcome) ==
    LET start == KkjAfterRateLimit(c)
        end == start + duration
        failed == outcome # "ok"
        last == Len(c.searches)
        over == ~failed \/ c.attempt >= StopAfterAttempt
    IN [ c EXCEPT
           !.now = IF over THEN end ELSE end + WaitExponential(c.attempt),
           !.last_request_time = IF outcome = "transport" THEN @ ELSE end,
           !.requests = Append(@, [ search |-> last, attempt |-> c.attempt,
                                    start |-> start, end |-> end,
                                    outcome |-> outcome ]),
           !.attempt = IF over THEN 0 ELSE @ + 1,
           !.pc = IF over THEN "idle" ELSE "fetch",
           !.searches[last].outcome =
               IF ~over THEN "pending"
               ELSE IF outcome = "ok" THEN "returned"
               ELSE IF outcome = "http" THEN "KKJAPIError"
               ELSE "TransportError",
           !.searches[last].status_code =
               IF over /\ outcome = "http" THEN "500" ELSE Null ]

\* An attempt that gets a response with status < 400.
KkjAttemptOk ==
    /\ kkj.pc = "fetch"
    /\ \E duration \in KkjDurations("ok") :
          kkj' = KkjAttempted(kkj, duration, "ok")
    /\ UNCHANGED <<upsertVars, runnerVars, auxVars, hashed, cycle, pportal>>

\* An attempt that gets a response with status >= 400: KKJAPIError.
KkjAttemptHttpError ==
    /\ kkj.pc = "fetch"
    /\ \E duration \in KkjDurations("http") :
          kkj' = KkjAttempted(kkj, duration, "http")
    /\ UNCHANGED <<upsertVars, runnerVars, auxVars, hashed, cycle, pportal>>

\* An attempt in which httpx raises (connect error, timeout).
KkjAttemptTransportError ==
    /\ kkj.pc = "fetch"
    /\ \E duration \in KkjDurations("transport") :
          kkj' = KkjAttempted(kkj, duration, "transport")
    /\ UNCHANGED <<upsertVars, runnerVars, auxVars, hashed, cycle, pportal>>

InitKkj == InitStore

NextKkj ==
    \/ KkjCreate
    \/ KkjSearch
    \/ KkjAttemptOk
    \/ KkjAttemptHttpError
    \/ KkjAttemptTransportError

SpecKkj == InitKkj /\ [][NextKkj]_vars

\* -------------------------------------------------------------------------
\* PPortalClient (ingest/pportal_client.py): rate limit, session, search
\* -------------------------------------------------------------------------

\* request_interval: float = 2.0
PPortalRequestInterval == 2

\* How long a request of the portal client takes, in seconds.
PPortalDurations == {1, 2}

\* PPortalClient._wait_for_rate_limit: the time at which it returns, which
\* it stores in _last_request_time before the request is sent.
PPortalAfterRateLimit(c) ==
    IF c.now - c.last_request_time < c.request_interval
    THEN c.now + (c.request_interval - (c.now - c.last_request_time))
    ELSE c.now

\* PPortalClient() and __enter__
PPortalCreate ==
    /\ pportal.pc = "none"
    /\ pportal' = [ pc |-> "idle", now |-> Epoch,
                    request_interval |-> PPortalRequestInterval,
                    last_request_time |-> 0,
                    session_initialized |-> FALSE,
                    requests |-> <<>>,
                    searches |-> <<>> ]
    /\ UNCHANGED <<upsertVars, runnerVars, auxVars, hashed, cycle, kkj>>

SessionInitialized_Always(c) == TRUE

\* _init_session: "if self._session_initialized: return"
SessionInitialized(c) == c.session_initialized

\* search(...) is called: _init_session returns at once when the session
\* is initialized, and issues the session GET otherwise.
PPortalSearchStart ==
    /\ pportal.pc = "idle"
    /\ Len(pportal.searches) < MaxSearches
    /\ \E gap \in CallerGaps :
          pportal' = [ pportal EXCEPT
                         !.pc = IF SessionInitialized(pportal)
                                THEN "post" ELSE "session",
                         !.now = @ + gap,
                         !.searches = Append(@,
                             [ called_at |-> pportal.now + gap,
                               initialized_before |-> pportal.session_initialized,
                               requests_before |-> Len(pportal.requests),
                               outcome |-> "pending" ]) ]
    /\ UNCHANGED <<upsertVars, runnerVars, auxVars, hashed, cycle, kkj>>

\* One request of the client: the rate limit is waited for and
\* _last_request_time is set to the time the request starts.
PPortalRequested(c, kind, duration, outcome) ==
    LET start == PPortalAfterRateLimit(c)
        end == start + duration
    IN [ c EXCEPT
           !.now = end,
           !.last_request_time = start,
           !.requests = Append(@, [ search |-> Len(c.searches), kind |-> kind,
                                    start |-> start, end |-> end,
                                    outcome |-> outcome ]) ]

\* The exception that ends search when a request fails.
PPortalRaised(outcome) ==
    IF outcome = "http" THEN "PPortalAPIError" ELSE "TransportError"

\* _init_session: the GET answers 200 and the session is initialized.
PPortalSessionGetOk ==
    /\ pportal.pc = "session"
    /\ \E duration \in PPortalDurations :
          pportal' = [ PPortalRequested(pportal, "GET", duration, "ok") EXCEPT
                         !.session_initialized = TRUE,
                         !.pc = "post" ]
    /\ UNCHANGED <<upsertVars, runnerVars, auxVars, hashed, cycle, kkj>>

\* _init_session: the GET answers another status or httpx raises; the
\* exception leaves search.
PPortalSessionGetFails ==
    /\ pportal.pc = "session"
    /\ \E duration \in PPortalDurations, outcome \in {"http", "transport"} :
          pportal' = [ PPortalRequested(pportal, "GET", duration, outcome) EXCEPT
                         !.pc = "idle",
                         !.searches[Len(pportal.searches)].outcome =
                             PPortalRaised(outcome) ]
    /\ UNCHANGED <<upsertVars, runnerVars, auxVars, hashed, cycle, kkj>>

\* search: the POST answers 200 and the results are returned.
PPortalPostOk ==
    /\ pportal.pc = "post"
    /\ \E duration \in PPortalDurations :
          pportal' = [ PPortalRequested(pportal, "POST", duration, "ok") EXCEPT
                         !.pc = "idle",
                         !.searches[Len(pportal.searches)].outcome = "returned" ]
    /\ UNCHANGED <<upsertVars, runnerVars, auxVars, hashed, cycle, kkj>>

\* search: the POST answers another status or httpx raises.
PPortalPostFails ==
    /\ pportal.pc = "post"
    /\ \E duration \in PPortalDurations, outcome \in {"http", "transport"} :
          pportal' = [ PPortalRequested(pportal, "POST", duration, outcome) EXCEPT
                         !.pc = "idle",
                         !.searches[Len(pportal.searches)].outcome =
                             PPortalRaised(outcome) ]
    /\ UNCHANGED <<upsertVars, runnerVars, auxVars, hashed, cycle, kkj>>

InitPPortal == InitStore

NextPPortal ==
    \/ PPortalCreate
    \/ PPortalSearchStart
    \/ PPortalSessionGetOk
    \/ PPortalSessionGetFails
    \/ PPortalPostOk
    \/ PPortalPostFails

SpecPPortal == InitPPortal /\ [][NextPPortal]_vars

\* -------------------------------------------------------------------------
\* upsert_item on items that differ in their non-identity fields
\* -------------------------------------------------------------------------

\* Items of both sources whose title, category and body vary together.
FrameInputs ==
    { [ NewItem(src, sid, url, content[1]) EXCEPT
          !.category = content[2],
          !.body = content[3],
          !.body_hash = content[3] ] :
        src \in Sources, sid \in {None, <<"1">>}, url \in {None, <<"u">>},
        content \in { << <<"a">>, None, None >>,
                      << <<"b">>, <<"c">>, <<"t">> >> } }

FrameUpsert == \E item \in FrameInputs : upsert_item(item)

InitFrame == InitStore

NextFrame == FrameUpsert

SpecFrame == InitFrame /\ [][NextFrame]_vars

\* -------------------------------------------------------------------------
\* Scraped records stored through normalize_pportal_result and upsert_item
\* -------------------------------------------------------------------------

\* Scraped records with and without a detail URL (the parser leaves "" when
\* the row has no link).
ScrapedRecords ==
    { PPortalSearchResult(case_number, detail_url, title) :
        case_number \in { <<"1">>, <<"2">> },
        detail_url \in { None, <<>>, <<"u">> },
        title \in { <<"a">>, <<"b">> } }

\* One scraped record is normalized and upserted, as _process_chunk does.
ScrapedUpsert ==
    \E rec \in ScrapedRecords :
        upsert_item(normalize_pportal_result(rec, "pportal").item)

InitScraped == InitStore

NextScraped == ScrapedUpsert

SpecScraped == InitScraped /\ [][NextScraped]_vars

\* -------------------------------------------------------------------------
\* Runs whose notification batch is capped by notify.max_items
\* -------------------------------------------------------------------------

\* notify.max_items of 1 and of 2, one Slack webhook.
BatchConfigs ==
    { NotifyConfig("slack", <<"r1">>, max_items, TRUE) : max_items \in {1, 2} }

\* A run of the only_new saved search that meets no store fault.
BatchRun ==
    /\ Len(execs) < MaxRuns
    /\ \E notify \in BOOLEAN, cfg \in BatchConfigs :
          Run(1, notify, FALSE, cfg, "none")

InitBatch == InitStore

NextBatch == Ingest \/ BatchRun

SpecBatch == InitBatch /\ [][NextBatch]_vars

\* -------------------------------------------------------------------------
\* run_full_ingest over chunks that reach the cap on the records fetched
\* -------------------------------------------------------------------------

\* Responses of no record, of fewer records than the cap and of as many
\* records as the cap, with a SearchHits that is that number or more (the
\* API cuts the list at Count).
CappedResponses ==
    { [ results |-> [ k \in 1..n |-> KKJSearchResult(<<ToString(k)>>, None, <<"a">>) ],
        search_hits |-> n + more ] :
        n \in 0..MaxCount, more \in {0, 5} }

CappedIngestChunk == IngestChunkOf(CappedResponses)

InitCapped == InitStore

NextCapped ==
    FullIngestStart \/ CappedIngestChunk \/ FullIngestChunkFails \/ FullIngestReturn

SpecCapped == InitCapped /\ [][NextCapped]_vars

\* -------------------------------------------------------------------------
\* Claims about upsert_item
\* -------------------------------------------------------------------------

HasSid(it) == Truthy(it.source_item_id)

HasUrl(it) == Truthy(it.url)

\* "The same logical identity": the same (source, source_item_id), or the
\* same URL, or, when neither is present, the same content_hash.
SameIdentity(a, b) ==
    \/ /\ HasSid(a) /\ HasSid(b)
       /\ a.source = b.source /\ a.source_item_id = b.source_item_id
    \/ /\ HasUrl(a) /\ HasUrl(b) /\ a.url = b.url
    \/ /\ ~HasSid(a) /\ ~HasUrl(a) /\ ~HasSid(b) /\ ~HasUrl(b)
       /\ a.content_hash = b.content_hash

\* The table as call j left it.
PostOf(j) == IF j = Len(calls) THEN items ELSE calls[j + 1].pre

\* A row that carries every identity field of the item.
Carries(row, it) ==
    /\ row.source = it.source
    /\ row.source_item_id = it.source_item_id
    /\ row.url = it.url
    /\ row.content_hash = it.content_hash

C2_BySid(pre, it) ==
    IF it.source_item_id # None /\ it.source_item_id # <<>>
    THEN { r \in DOMAIN pre : /\ pre[r].source = it.source
                              /\ pre[r].source_item_id = it.source_item_id }
    ELSE {}

C2_ByUrl(pre, it) ==
    IF it.url # None /\ it.url # <<>>
    THEN { r \in DOMAIN pre : pre[r].url = it.url }
    ELSE {}

C2_ByHash(pre, it) ==
    { r \in DOMAIN pre : pre[r].content_hash = it.content_hash }

C2_Decided(pre, it) ==
    IF C2_BySid(pre, it) # {} THEN C2_BySid(pre, it)
    ELSE IF C2_ByUrl(pre, it) # {} THEN C2_ByUrl(pre, it)
    ELSE C2_ByHash(pre, it)

\* C2: every call resolves identity in the order (source, source_item_id),
\* URL, content_hash.  The first lookup that finds a row decides the row that
\* is updated (that row alone changes and takes the item's fields); a row is
\* inserted only when every applicable lookup found nothing; a call that
\* raises writes nothing.
C2_LookupOrder ==
    \A j \in 1..Len(calls) :
        LET c    == calls[j]
            pre  == c.pre
            post == PostOf(j)
            hit  == C2_Decided(pre, c.item)
        IN /\ (hit # {}) => ~c.is_new
           /\ (hit = {}) => (c.is_new \/ c.raised)
           /\ c.raised => post = pre
           /\ (~c.raised /\ ~c.is_new) =>
                 /\ c.id \in hit
                 /\ Len(post) = Len(pre)
                 /\ post[c.id].source_item_id = c.item.source_item_id
                 /\ post[c.id].url = c.item.url
                 /\ post[c.id].content_hash = c.item.content_hash
                 /\ \A r \in DOMAIN pre : r # c.id => post[r] = pre[r]
           /\ c.is_new =>
                 /\ ~c.raised
                 /\ c.id = Len(pre) + 1
                 /\ Len(post) = Len(pre) + 1
                 /\ \A r \in DOMAIN pre : post[r] = pre[r]
                 /\ post[c.id].source = c.item.source
                 /\ post[c.id].content_hash = c.item.content_hash

\* C2 witness: a call whose item has a source item id that no row of its
\* source carries falls through to the URL lookup, which finds a row; that row
\* is returned and updated, although the content hash matches no row.
C2_Witness ==
    \E j \in 1..Len(calls) :
        /\ HasSid(calls[j].item)
        /\ C2_BySid(calls[j].pre, calls[j].item) = {}
        /\ C2_ByUrl(calls[j].pre, calls[j].item) # {}
        /\ C2_ByHash(calls[j].pre, calls[j].item) = {}
        /\ ~calls[j].raised /\ ~calls[j].is_new
        /\ calls[j].id \in C2_ByUrl(calls[j].pre, calls[j].item)
        /\ PostOf(j)[calls[j].id].source_item_id = calls[j].item.source_item_id

\* -------------------------------------------------------------------------
\* Claims about the saved-search diff engine
\* -------------------------------------------------------------------------

Range(seq) == { seq[i] : i \in DOMAIN seq }

HitsOfRun(run_id) ==
    { h \in DOMAIN hits : hits[h].saved_search_run_id = run_id }

NotificationsOfRun(run_id) ==
    { n \in DOMAIN notifications :
        notifications[n].saved_search_run_id = run_id }

\* The executions that were not dry runs.
RealExecs == { e \in DOMAIN execs : ~execs[e].dry_run }

\* The items an execution handed to the notifier.
HandedOver(e) ==
    UNION { Range(execs[e].attempts[a].items) : a \in DOMAIN execs[e].attempts }

\* C3: for a saved search with only_new, no item id is recorded as a hit in
\* more than one run of the search (nor twice in one run), and no item is
\* handed to the notifier by more than one run.
C3_HitAtMostOnce ==
    \A ss \in SavedSearchIds :
        saved_search(ss).only_new =>
            /\ \A h1, h2 \in DOMAIN hits :
                  ( /\ h1 # h2
                    /\ runs[hits[h1].saved_search_run_id].saved_search_id = ss
                    /\ runs[hits[h2].saved_search_run_id].saved_search_id = ss )
                  => hits[h1].item_id # hits[h2].item_id
            /\ \A e1, e2 \in RealExecs :
                  ( /\ e1 # e2
                    /\ execs[e1].saved_search_id = ss
                    /\ execs[e2].saved_search_id = ss )
                  => HandedOver(e1) \cap HandedOver(e2) = {}

\* C3 witness: the only_new search ran twice for real, an item arrived in
\* between, and each run recorded hits and handed items to the notifier.
C3_Witness ==
    /\ Len(execs) = 2
    /\ \A e \in {1, 2} :
          /\ execs[e].saved_search_id = 1
          /\ ~execs[e].dry_run
          /\ HitsOfRun(execs[e].run_id) # {}
          /\ HandedOver(e) # {}
    /\ execs[1].store_size < execs[2].store_size

\* C4: when an only_new search is run twice for real and the item store is
\* the same at both runs, the second run has no new item: hit_count 0, no hit
\* row, no delivery and no notification row.  (The first run is one that got
\* as far as recording its hits: a run whose search or hit insert raised has
\* reported nothing yet.)
C4_SecondRunEmpty ==
    \A e1, e2 \in RealExecs :
        ( /\ e1 < e2
          /\ execs[e1].saved_search_id = execs[e2].saved_search_id
          /\ saved_search(execs[e1].saved_search_id).only_new
          /\ execs[e1].store_size = execs[e2].store_size
          /\ execs[e1].raised_at \notin {"search", "hit"} )
        => ( /\ execs[e2].new_items = <<>>
             /\ execs[e2].result.new = 0
             /\ runs[execs[e2].run_id].hit_count = 0
             /\ HitsOfRun(execs[e2].run_id) = {}
             /\ execs[e2].attempts = <<>>
             /\ NotificationsOfRun(execs[e2].run_id) = {} )

\* C4 witness: two real runs of the only_new search over the same non-empty
\* store; the first reported its items and notified, the second ran to the
\* end with notification requested.
C4_Witness ==
    /\ Len(execs) = 2
    /\ \A e \in {1, 2} : /\ execs[e].saved_search_id = 1
                         /\ ~execs[e].dry_run
                         /\ execs[e].notify
                         /\ execs[e].result.status = "ok"
    /\ execs[1].store_size = 2
    /\ execs[2].store_size = 2
    /\ execs[1].result.new = 2
    /\ execs[1].attempts # <<>>

\* The item ids hit by runs of the saved search that came before run_id, read
\* from the hit table.
PriorHitIds(ss, run_id) ==
    { hits[h].item_id :
        h \in { x \in DOMAIN hits :
                  /\ hits[x].saved_search_run_id < run_id
                  /\ runs[hits[x].saved_search_run_id].saved_search_id = ss } }

\* C5: with only_new a run's new-item set is exactly the current search
\* result less the item ids hit by any prior run of the same saved search;
\* without only_new it is the whole current result.  The run writes exactly
\* one hit row per new item and no other (a run stopped by an exception while
\* inserting hits has written at most one row per new item).
C5_NewIsSetDifference ==
    \A e \in RealExecs :
        LET x == execs[e]
            current == 1..x.store_size
            new == Range(x.new_items)
            rowsFor(i) == { h \in HitsOfRun(x.run_id) : hits[h].item_id = i }
        IN x.raised_at # "search" =>
             /\ Range(x.found) = current
             /\ Cardinality(new) = Len(x.new_items)
             /\ IF saved_search(x.saved_search_id).only_new
                THEN new = current \ PriorHitIds(x.saved_search_id, x.run_id)
                ELSE new = current
             /\ \A h \in HitsOfRun(x.run_id) : hits[h].item_id \in new
             /\ \A i \in new : Cardinality(rowsFor(i)) <= 1
             /\ x.raised_at # "hit" =>
                   \A i \in new : Cardinality(rowsFor(i)) = 1
             /\ x.result.status = "ok" =>
                   /\ x.result.new = Cardinality(new)
                   /\ runs[x.run_id].hit_count = Cardinality(new)

\* C5 witness: a run of the only_new search finds two current matches of
\* which one was hit by a prior run, and records exactly the other one; and a
\* run of the search without only_new records an item again.
C5_Witness ==
    /\ Len(execs) = 2
    /\ ~execs[1].dry_run /\ ~execs[2].dry_run
    /\ execs[2].saved_search_id = 1
    /\ execs[2].store_size = 2
    /\ PriorHitIds(1, execs[2].run_id) = {1}
    /\ execs[2].new_items = <<2>>
    /\ { hits[h].item_id : h \in HitsOfRun(execs[2].run_id) } = {2}
    /\ execs[2].result.status = "ok"

\* C6 as stated: every real execution creates exactly one run row, writes its
\* final status exactly once, to ok or failed, and leaves no run running.
C6_FinalizedExactlyOnce ==
    /\ Len(runs) = Cardinality(RealExecs)
    /\ \A e \in RealExecs :
          /\ execs[e].run_id \in DOMAIN runs
          /\ runs[execs[e].run_id].status \in {"ok", "failed"}
          /\ Len(execs[e].writes) = 1
          /\ execs[e].writes[1] \in {"ok", "failed"}

\* C10: a run with zero new items skips notification: no delivery is
\* attempted, no notification row is created, no hit of the run is marked
\* notified, and the run row ends with no notify status and no notified
\* channels (the result reports none either).
C10_NoNewItemsNoNotification ==
    \A e \in DOMAIN execs :
        LET x == execs[e] IN
        x.new_items = <<>> =>
            /\ x.attempts = <<>>
            /\ x.result.notify_status = Null
            /\ ~x.result.notified
            /\ ~x.dry_run =>
                  /\ NotificationsOfRun(x.run_id) = {}
                  /\ \A h \in HitsOfRun(x.run_id) : hits[h].notified_at = 0
                  /\ runs[x.run_id].status \in {"ok", "failed"}
                  /\ runs[x.run_id].notify_status = Null
                  /\ runs[x.run_id].notified_channels = <<>>

\* C10 witness: a real run with notification requested and configured finds
\* matches in the store, none of them new, and ends ok.
C10_Witness ==
    \E e \in RealExecs :
        /\ execs[e].notify
        /\ execs[e].cfg.present /\ execs[e].cfg.enabled
        /\ execs[e].cfg.recipients # <<>>
        /\ execs[e].found # <<>>
        /\ execs[e].new_items = <<>>
        /\ execs[e].result.status = "ok"

\* -------------------------------------------------------------------------
\* Claims about the notification dispatcher
\* -------------------------------------------------------------------------

\* The real executions that called _send_notifications with recipients that
\* are pairwise distinct.
Dispatching ==
    { e \in RealExecs :
        /\ execs[e].raised_at \notin {"search", "hit"}
        /\ WantsNotify(execs[e].notify, execs[e].new_items, execs[e].cfg)
        /\ execs[e].cfg.recipients # <<>>
        /\ Cardinality(Range(execs[e].cfg.recipients))
              = Len(execs[e].cfg.recipients) }

\* The notification rows of a run for one recipient.
RowsFor(run_id, recipient) ==
    { n \in NotificationsOfRun(run_id) :
        notifications[n].recipient = recipient }

\* C7 as stated: when the delivery to one recipient fails, every recipient is
\* still attempted, each has exactly one notification row, "failed" for the
\* recipients whose delivery failed and "ok" for the others, and the run is
\* finalized with status ok.
C7_FailureIsolated ==
    \A e \in Dispatching :
        LET x == execs[e] IN
        /\ Len(x.attempts) = Len(x.cfg.recipients)
        /\ \A i \in DOMAIN x.attempts :
              /\ x.attempts[i].recipient = x.cfg.recipients[i]
              /\ \E n \in RowsFor(x.run_id, x.attempts[i].recipient) :
                    /\ RowsFor(x.run_id, x.attempts[i].recipient) = {n}
                    /\ notifications[n].status =
                          IF x.attempts[i].outcome = "ok" THEN "ok"
                          ELSE "failed"
        /\ runs[x.run_id].status = "ok"
        /\ x.result.status = "ok"

\* C8 as stated: with at least one recipient and at least one new item, the
\* run-level notify status is ok when every delivery succeeds, partial when
\* some succeed and some fail, failed when every delivery fails.
C8_StatusFromOutcomes ==
    \A e \in Dispatching :
        LET x == execs[e]
            succeeded == { i \in DOMAIN x.attempts : x.attempts[i].outcome = "ok" }
            failed == DOMAIN x.attempts \ succeeded
            expected == IF failed = {} THEN "ok"
                        ELSE IF succeeded # {} THEN "partial"
                        ELSE "failed"
        IN /\ runs[x.run_id].notify_status = expected
           /\ x.result.notify_status = expected

\* C9 as stated: when notification is enabled and there are new items but no
\* recipient is configured, the notify status is "failed" with an error
\* message and no delivery is attempted.
C9_NoRecipientsIsFailed ==
    \A e \in DOMAIN execs :
        LET x == execs[e] IN
        ( /\ x.raised_at \notin {"search", "hit"}
          /\ WantsNotify(x.notify, x.new_items, x.cfg)
          /\ x.cfg.recipients = <<>> )
        => /\ x.attempts = <<>>
           /\ x.result.notify_status = "failed"
           /\ ~x.dry_run =>
                 /\ runs[x.run_id].notify_status = "failed"
                 /\ runs[x.run_id].notify_error # <<>>
                 /\ NotificationsOfRun(x.run_id) = {}

\* -------------------------------------------------------------------------
\* Claims about the notification records and the retry queue
\* -------------------------------------------------------------------------

\* C11: no two notification rows share a dedupe key, that is there is at most
\* one row per (saved search, run, channel, recipient); a later attempt
\* updates that row in place: the table keeps its length, the other rows are
\* untouched, and the row keeps its identity while attempt_count grows by
\* exactly 1 and status and error are replaced.
C11_OneRecordPerDelivery ==
    /\ \A n, m \in DOMAIN notifications :
          n # m =>
            /\ notifications[n].dedupe_key # notifications[m].dedupe_key
            /\ << notifications[n].saved_search_run_id,
                  notifications[n].channel, notifications[n].recipient >>
               # << notifications[m].saved_search_run_id,
                    notifications[m].channel, notifications[m].recipient >>
    /\ \A r \in DOMAIN rounds :
          LET x == rounds[r]
              old == x.before[x.notification_id]
          IN /\ DOMAIN x.after = DOMAIN x.before
             /\ \A n \in DOMAIN x.before :
                   n # x.notification_id => x.after[n] = x.before[n]
             /\ x.after[x.notification_id] =
                   [ old EXCEPT
                       !.attempt_count   = old.attempt_count + 1,
                       !.status          = x.status,
                       !.error_message   = IF x.status = "ok" THEN Null
                                           ELSE "NotificationError",
                       !.last_attempt_at = x.after[x.notification_id].last_attempt_at ]

\* C11 witness: a run was given the same recipient twice and stored one row
\* for it, and two failed notifications have been re-attempted, one failing
\* again and one with success.
C11_Witness ==
    /\ \E e \in DOMAIN execs :
          /\ execs[e].cfg.recipients = <<"r1", "r1">>
          /\ Len(execs[e].attempts) = 2
    /\ Len(rounds) = 2
    /\ rounds[1].notification_id # rounds[2].notification_id
    /\ rounds[1].status = "failed"
    /\ rounds[2].status = "ok"
    /\ notifications[rounds[1].notification_id].attempt_count = 2
    /\ notifications[rounds[2].notification_id].attempt_count = 2

\* C12: generate_dedupe_key depends on its four arguments only: two calls
\* with identical arguments return identical keys, and two calls that differ
\* in the recipient alone return different keys.
C12_KeyIsFunctionOfTuple ==
    \A i, j \in DOMAIN keys :
        LET a == keys[i]
            b == keys[j]
            sameRun == /\ a.saved_search_id = b.saved_search_id
                       /\ a.run_id = b.run_id
                       /\ a.channel = b.channel
        IN /\ (sameRun /\ a.recipient = b.recipient) => a.key = b.key
           /\ (sameRun /\ a.recipient # b.recipient) => a.key # b.key

\* C12 witness: the function was called twice for the same saved search, run
\* and channel with two recipients, one of them containing the separator.
C12_Witness ==
    /\ Len(keys) = 2
    /\ keys[1].saved_search_id = keys[2].saved_search_id
    /\ keys[1].run_id = keys[2].run_id
    /\ keys[1].channel = keys[2].channel
    /\ keys[1].recipient = <<"a">>
    /\ keys[2].recipient = <<"a", ":">>

\* The clock tick a stored last_attempt_at stands for
\* (datetime.fromisoformat).
AttemptTick(text) ==
    LET value(c) == (CHOOSE d \in DOMAIN Digits : Digits[d] = c) - 1
    IN 2 * (10 * value(text[1]) + value(text[2]))
         + (IF text[3] = "." THEN 1 ELSE 0)

\* C13: in every state get_failed_notifications(max_attempts) returns exactly
\* the rows whose status is failed and whose attempt_count is below
\* max_attempts, each once, the row attempted longest ago first; a row with
\* status ok or with attempt_count at or above the ceiling is not returned.
C13_FailedUnderCeilingOldestFirst ==
    \A returned \in get_failed_notifications(notifications, MaxAttempts) :
        /\ Range(returned) =
              { n \in DOMAIN notifications :
                  /\ notifications[n].status = "failed"
                  /\ notifications[n].attempt_count < MaxAttempts }
        /\ \A i, j \in DOMAIN returned :
              i < j =>
                /\ returned[i] # returned[j]
                /\ AttemptTick(notifications[returned[i]].last_attempt_at)
                     <= AttemptTick(notifications[returned[j]].last_attempt_at)

\* C13 witness: the table holds a delivered row, a failed row that has used
\* up its attempts and two failed rows under the ceiling, of which the one
\* stored first was re-attempted last: the query returns the other one first.
C13_Witness ==
    /\ \E n \in DOMAIN notifications : notifications[n].status = "ok"
    /\ \E n \in DOMAIN notifications :
          /\ notifications[n].status = "failed"
          /\ notifications[n].attempt_count = MaxAttempts
    /\ \E returned \in get_failed_notifications(notifications, MaxAttempts) :
          /\ Len(returned) = 2
          /\ returned[1] > returned[2]

\* C14: under any sequence of retry rounds no notification's attempt_count
\* exceeds max_attempts, every re-attempted notification was failed and under
\* the ceiling when it was read, and a notification that a round has brought
\* to ok is not attempted by any later round.
C14_RetriesStayWithinBudget ==
    /\ \A n \in DOMAIN notifications :
          notifications[n].attempt_count <= MaxAttempts
    /\ \A r \in DOMAIN rounds :
          /\ rounds[r].before[rounds[r].notification_id].status = "failed"
          /\ rounds[r].after[rounds[r].notification_id].attempt_count
                <= rounds[r].max_attempts
    /\ \A r1, r2 \in DOMAIN rounds :
          ( r1 < r2 /\ rounds[r1].notification_id = rounds[r2].notification_id )
          => rounds[r1].status # "ok"

\* C14 witness: after three rounds one notification has been re-attempted up
\* to the ceiling and is still failed, and another was delivered by a retry;
\* no further round can touch either.
C14_Witness ==
    /\ Len(rounds) = MaxRounds
    /\ \E n \in DOMAIN notifications :
          /\ notifications[n].status = "failed"
          /\ notifications[n].attempt_count = MaxAttempts
    /\ \E n \in DOMAIN notifications :
          /\ notifications[n].status = "ok"
          /\ notifications[n].attempt_count = 2
    /\ get_failed_notifications(notifications, MaxAttempts) = { <<>> }

\* -------------------------------------------------------------------------
\* Claims about date_range_generator
\* -------------------------------------------------------------------------

\* The days of the i-th yielded chunk.
ChunkDays(i) == strptime(gen.yielded[i][1]) .. strptime(gen.yielded[i][2])

\* C15: for start_date <= end_date and days_per_chunk >= 1 the chunks yielded
\* are inclusive, non-empty sub-ranges in ascending order, each starting the
\* day after the previous one ended, the first at start_date; when the
\* generator is exhausted the last ends at end_date, no two chunks overlap
\* and their union is exactly [start_date, end_date].
C15_ChunksTileTheRange ==
    gen.state # "idle" =>
        /\ \A i \in DOMAIN gen.yielded : ChunkDays(i) # {}
        /\ gen.yielded # <<>> => gen.yielded[1][1] = gen.start_date
        /\ \A i \in DOMAIN gen.yielded :
              i > 1 => strptime(gen.yielded[i][1])
                         = strptime(gen.yielded[i - 1][2]) + 1
        /\ gen.state = "exhausted" =>
              /\ gen.yielded # <<>>
              /\ gen.yielded[Len(gen.yielded)][2] = gen.end_date
              /\ \A i, j \in DOMAIN gen.yielded :
                    i # j => ChunkDays(i) \cap ChunkDays(j) = {}
              /\ UNION { ChunkDays(i) : i \in DOMAIN gen.yielded }
                    = strptime(gen.start_date) .. strptime(gen.end_date)

\* C15 witness: an exhausted generator that yielded at least three chunks,
\* one of them running from January into February.
C15_Witness ==
    /\ gen.state = "exhausted"
    /\ Len(gen.yielded) >= 3
    /\ \E i \in DOMAIN gen.yielded :
          gen.yielded[i][1][2] = 1 /\ gen.yielded[i][2][2] = 2

\* The least n with n * d >= total: ceil(total / d).
CeilDiv(total, d) == CHOOSE n \in 0..total : n * d >= total /\ (n - 1) * d < total

\* C16: an exhausted generator has yielded ceil((end - start + 1) / d) chunks,
\* which is what estimate_chunks returns; every chunk but the last spans
\* exactly d days, the last spans at most d days and ends at end_date; and
\* 2025-01-01..2025-01-20 with d = 7 gives (01-01, 01-07), (01-08, 01-14),
\* (01-15, 01-20).
C16_ChunkCountIsCeiling ==
    gen.state = "exhausted" =>
        LET total == (strptime(gen.end_date) - strptime(gen.start_date)) + 1
            n == Len(gen.yielded)
        IN /\ n = CeilDiv(total, gen.days_per_chunk)
           /\ n = estimate_chunks(gen.start_date, gen.end_date,
                                  gen.days_per_chunk)
           /\ \A i \in 1..(n - 1) :
                 Cardinality(ChunkDays(i)) = gen.days_per_chunk
           /\ Cardinality(ChunkDays(n)) <= gen.days_per_chunk
           /\ gen.yielded[n][2] = gen.end_date
           /\ ( /\ gen.start_date = <<2025, 1, 1>>
                /\ gen.end_date = <<2025, 1, 20>>
                /\ gen.days_per_chunk = 7 )
              => gen.yielded = << << <<2025, 1, 1>>, <<2025, 1, 7>> >>,
                                  << <<2025, 1, 8>>, <<2025, 1, 14>> >>,
                                  << <<2025, 1, 15>>, <<2025, 1, 20>> >> >>

\* C16 witness: the generator for 2025-01-01..2025-01-20 with d = 7 is
\* exhausted after three chunks, the last shorter than the others.
C16_Witness ==
    /\ gen.state = "exhausted"
    /\ gen.start_date = <<2025, 1, 1>>
    /\ gen.end_date = <<2025, 1, 20>>
    /\ gen.days_per_chunk = 7
    /\ Len(gen.yielded) = 3
    /\ Cardinality(ChunkDays(3)) = 6

\* -------------------------------------------------------------------------
\* Claims about run_full_ingest
\* -------------------------------------------------------------------------

\* The plan of the run in ingest: the number of chunks the date range splits
\* into, and the first and last day of the i-th of them.
PlannedChunks ==
    LET total == (strptime(ingest.end_date) - strptime(ingest.start_date)) + 1
    IN IF total <= 0 THEN 0 ELSE CeilDiv(total, ingest.days_per_chunk)

PlannedFrom(i) ==
    strptime(ingest.start_date) + ((i - 1) * ingest.days_per_chunk)

PlannedTo(i) ==
    MinDay(PlannedFrom(i) + (ingest.days_per_chunk - 1),
           strptime(ingest.end_date))

\* C17: in run_full_ingest a chunk whose processing fails is recorded as a
\* chunk result with api_hits=0, fetched=0, new=0, updated=0 and errors=1,
\* and the loop goes on with the next chunk: every chunk handled so far has
\* exactly one chunk result, the results are the planned chunks in plan
\* order, the loop stays enabled while planned chunks remain, and when
\* run_full_ingest has returned every planned chunk has its result.
C17_ChunkFailureIsolated ==
    ingest.state # "idle" =>
        LET res == ingest.result.chunk_results
        IN /\ Len(res) = Len(ingest.trace)
           /\ Len(res) <= PlannedChunks
           /\ \A i \in DOMAIN res :
                 /\ res[i].from = strftime(PlannedFrom(i))
                 /\ res[i].to = strftime(PlannedTo(i))
                 /\ ingest.trace[i].raised =>
                       /\ res[i].api_hits = 0
                       /\ res[i].fetched = 0
                       /\ res[i].new = 0
                       /\ res[i].updated = 0
                       /\ res[i].errors = 1
           /\ (ingest.state = "running" /\ Len(res) < PlannedChunks) =>
                 ingest.current <= ingest.end
           /\ ingest.state = "returned" => Len(res) = PlannedChunks

\* A run of two planned chunks has returned: the first chunk failed, the
\* second fetched records after it.
C17_Witness ==
    /\ ingest.state = "returned"
    /\ PlannedChunks = 2
    /\ Len(ingest.trace) = 2
    /\ ingest.trace[1].raised
    /\ ~ingest.trace[2].raised
    /\ ingest.result.chunk_results[2].fetched > 0

RECURSIVE SumField(_, _)
SumField(seq, field) ==
    IF seq = <<>> THEN 0 ELSE seq[1][field] + SumField(Tail(seq), field)

\* C18: the totals of a FullIngestResult are the sums of the per-chunk
\* fetched, new, updated and errors values, chunks_processed is the number
\* of chunk results, and total_api_hits is the largest api_hits any chunk
\* reported, not their sum.
C18_TotalsAreSumsAndMax ==
    ingest.state # "idle" =>
        LET r == ingest.result
            res == r.chunk_results
        IN /\ r.total_fetched = SumField(res, "fetched")
           /\ r.total_new = SumField(res, "new")
           /\ r.total_updated = SumField(res, "updated")
           /\ r.total_errors = SumField(res, "errors")
           /\ r.chunks_processed = Len(res)
           /\ \A i \in DOMAIN res : r.total_api_hits >= res[i].api_hits
           /\ res # <<>> =>
                 \E i \in DOMAIN res : r.total_api_hits = res[i].api_hits

\* A returned run of two chunks whose first chunk reported more hits than
\* the second, with new, updated and failed records among them.
C18_Witness ==
    /\ ingest.state = "returned"
    /\ Len(ingest.result.chunk_results) = 2
    /\ ingest.result.chunk_results[1].api_hits
           > ingest.result.chunk_results[2].api_hits
    /\ ingest.result.chunk_results[2].api_hits > 0
    /\ ingest.result.total_new > 0
    /\ ingest.result.total_updated > 0
    /\ ingest.result.total_errors > 0

\* The records of a response that normalize_kkj_result rejects.
Rejected(response) ==
    { j \in DOMAIN response.results : ~Truthy(response.results[j].project_name) }

\* C19: when upsert_item raises for one item of a chunk, the failure is
\* logged and skipped, the remaining items of the batch are still upserted,
\* and the failure is counted in the chunk's error count: the chunk's errors
\* are its rejected records plus its failed upserts.
C19_UpsertFailureCounted ==
    ingest.state # "idle" =>
        \A i \in DOMAIN ingest.trace :
            (~ingest.trace[i].raised /\ ~ingest.dry_run) =>
                LET t == ingest.trace[i]
                    c == ingest.result.chunk_results[i]
                    accepted == Len(t.response.results)
                                    - Cardinality(Rejected(t.response))
                IN /\ t.attempted = accepted
                   /\ c.new + c.updated + t.logged = accepted
                   /\ c.errors = Cardinality(Rejected(t.response)) + t.logged

\* The part of C19 the code keeps: every accepted item is tried, and each is
\* new, updated or logged.
C19_BatchContinues ==
    ingest.state # "idle" =>
        \A i \in DOMAIN ingest.trace :
            (~ingest.trace[i].raised /\ ~ingest.dry_run) =>
                LET t == ingest.trace[i]
                    c == ingest.result.chunk_results[i]
                    accepted == Len(t.response.results)
                                    - Cardinality(Rejected(t.response))
                IN /\ t.attempted = accepted
                   /\ c.new + c.updated + t.logged = accepted

\* -------------------------------------------------------------------------
\* Claims about the normalizers
\* -------------------------------------------------------------------------

\* The title and the source key of an input record of the call in norm.
RecordTitle(rec) == IF norm.fn = "kkj" THEN rec.project_name ELSE rec.title

RecordKey(rec) == IF norm.fn = "kkj" THEN rec.key ELSE rec.case_number

\* The k-th smallest member of a set of positions.
NthOf(S, k) == CHOOSE j \in S : Cardinality({ i \in S : i < j }) = k - 1

\* C20: normalize_kkj_results and normalize_pportal_results partition their
\* input: len(items) + len(errors) = len(records), the items are the records
\* that have a title, one Item each and in input order, the errors are the
\* records that lack one, one (record, error) pair each and in input order;
\* so a failing record never keeps a later record from being processed.
C20_NormalizersPartitionInput ==
    norm.fn # "none" =>
        LET rs == norm.results
            out == norm.out
            bad == { j \in DOMAIN rs : ~Truthy(RecordTitle(rs[j])) }
            good == DOMAIN rs \ bad
        IN /\ Len(out.items) + Len(out.errors) = Len(rs)
           /\ Len(out.items) = Cardinality(good)
           /\ Len(out.errors) = Cardinality(bad)
           /\ \A k \in DOMAIN out.items :
                 /\ out.items[k].source_item_id = RecordKey(rs[NthOf(good, k)])
                 /\ out.items[k].title = RecordTitle(rs[NthOf(good, k)])
                 /\ out.items[k].source = norm.fn
           /\ \A k \in DOMAIN out.errors :
                 /\ out.errors[k][1] = rs[NthOf(bad, k)]
                 /\ out.errors[k][2] = NormalizationError

\* A batch of five KKJ records of which only the third lacks a title: four
\* Items and one pair come back, and the fourth and fifth records are the
\* third and fourth Items.
C20_Witness ==
    /\ norm.fn = "kkj"
    /\ Len(norm.results) = 5
    /\ \A j \in 1..5 : Truthy(norm.results[j].project_name) <=> j # 3
    /\ norm.results[4].key # norm.results[5].key
    /\ Len(norm.out.items) = 4
    /\ Len(norm.out.errors) = 1
    /\ norm.out.errors[1][1] = norm.results[3]
    /\ norm.out.items[3].source_item_id = norm.results[4].key
    /\ norm.out.items[4].source_item_id = norm.results[5].key

\* -------------------------------------------------------------------------
\* Claims about content hashing
\* -------------------------------------------------------------------------

\* C21: generate_content_hash is invariant under canonicalization: two field
\* tuples whose corresponding texts differ only in whitespace run length,
\* leading or trailing whitespace, newline versus space, or width variants
\* have the same hash; normalize_string is idempotent and maps None and the
\* empty text to the empty text.
C21_HashInvariantUnderCanonicalization ==
    hashed.state = "done" =>
        /\ hashed.hash_first = hashed.hash_second
        /\ \A i \in DOMAIN hashed.second :
              /\ hashed.renormalized[i] = hashed.normalized[i]
              /\ hashed.second[i] \in {None, <<>>} => hashed.normalized[i] = <<>>

\* The part of C21 the code keeps: normalize_string is idempotent, gives the
\* empty text for None and the empty text, and the hashes agree whenever the
\* presence test on source_item_id decides alike for both tuples.
C21_InvariantWhenKeyPresenceAgrees ==
    hashed.state = "done" =>
        /\ (Truthy(hashed.first[6]) <=> Truthy(hashed.second[6])) =>
              hashed.hash_first = hashed.hash_second
        /\ \A i \in DOMAIN hashed.second :
              /\ hashed.renormalized[i] = hashed.normalized[i]
              /\ hashed.second[i] \in {None, <<>>} => hashed.normalized[i] = <<>>

\* -------------------------------------------------------------------------
\* Claims about repeated ingestion
\* -------------------------------------------------------------------------

\* The call that upserted the announcement a second time, if it was made.
SecondCall ==
    IF /\ Len(calls) >= 2
       /\ calls[Len(calls)].item \notin OtherItems
       /\ calls[Len(calls) - 1].item \notin OtherItems
    THEN Len(calls) ELSE 0

\* The rows that hold the announcement, in whatever spelling.
AnnouncementRows(tbl) ==
    { i \in DOMAIN tbl : tbl[i].title \in Variants(AnnouncementTitle) }

\* C22: upserting the same title, organization and URL a second time with
\* whitespace-only differences in those fields resolves to the row the first
\* upsert left, returns is_new = false, and the store still holds exactly one
\* row for that announcement.
C22_WhitespaceVariantUpdatesRow ==
    SecondCall # 0 =>
        LET second == calls[SecondCall]
            first == calls[SecondCall - 1]
        IN /\ ~first.raised
           /\ ~second.raised
           /\ ~second.is_new
           /\ second.id = first.id
           /\ Len(items) = Len(second.pre)
           /\ AnnouncementRows(items) = {second.id}

\* The second upsert differs from the first in the whitespace of its title
\* and of its URL, carries no key, and was resolved to the first one's row
\* although another announcement is stored as well.
C22_Witness ==
    /\ SecondCall = 3
    /\ calls[3].item.source_item_id = None
    /\ calls[2].item.url = <<"u">>
    /\ calls[3].item.url = <<"u", " ">>
    /\ calls[2].item.title = <<"a", " ", "b">>
    /\ calls[3].item.title = <<"a", "\n", "b">>
    /\ ~calls[3].is_new
    /\ calls[3].id = calls[2].id
    /\ Len(items) = 2

\* The identity and content fields of the rows of a table.
ContentOf(tbl) ==
    { [ source |-> tbl[i].source,
        source_item_id |-> tbl[i].source_item_id,
        url |-> tbl[i].url,
        title |-> tbl[i].title,
        organization_name |-> tbl[i].organization_name,
        content_hash |-> tbl[i].content_hash ] : i \in DOMAIN tbl }

\* The tables one uninterrupted cycle on the payload can leave in an empty
\* store.
UninterruptedTables ==
    { st.tbl : st \in SaveItems(cycle.accepted,
                   [ tbl |-> <<>>, now |-> 0, new_count |-> 0,
                     updated_count |-> 0, attempted |-> 0, logged |-> 0 ]) }

\* C23: ingestion is idempotent on the item store: repeating the fetch,
\* normalize, upsert cycle on the same payload, after a crash at any item
\* boundary or after a complete run, leaves the same set of rows with the
\* same identity and content fields as one uninterrupted run, and a full
\* repeat of a complete run reports new = 0.
C23_RepeatedCycleIsIdempotent ==
    cycle.state = "done" =>
        /\ \E tbl \in UninterruptedTables : ContentOf(items) = ContentOf(tbl)
        /\ ~cycle.crashed => cycle.new_count = 0

\* -------------------------------------------------------------------------
\* Claims about the item store's uniqueness
\* -------------------------------------------------------------------------

\* C24: in every reachable state of the item store no two rows share the
\* same (source, source_item_id) where a source_item_id is present, and no
\* two rows share the same URL where a URL is present.
C24_IdentitiesAreUnique ==
    \A i, j \in DOMAIN items :
        i # j =>
            /\ (items[i].source_item_id # None /\ items[j].source_item_id # None) =>
                  << items[i].source, items[i].source_item_id >>
                      # << items[j].source, items[j].source_item_id >>
            /\ (items[i].url # None /\ items[j].url # None) =>
                  items[i].url # items[j].url

\* Two rows are stored and an upsert that would have given one of them the
\* other's key or URL was refused.
C24_Witness ==
    /\ Len(items) = 2
    /\ \E j \in DOMAIN calls :
          /\ calls[j].raised
          /\ Len(calls[j].pre) = 2
          /\ \E i \in DOMAIN items :
                \/ /\ items[i].url # None
                   /\ items[i].url = calls[j].item.url
                \/ /\ items[i].source_item_id # None
                   /\ items[i].source = calls[j].item.source
                   /\ items[i].source_item_id = calls[j].item.source_item_id

\* -------------------------------------------------------------------------
\* Claims about failing saved-search runs
\* -------------------------------------------------------------------------

C26_IntervalFromEndOfPrevious ==
    pportal.pc # "none" =>
        \A i \in 2..Len(pportal.requests) :
            pportal.requests[i].start >=
                pportal.requests[i - 1].end + pportal.request_interval

\* What the portal client keeps: request_interval between the starts of
\* two consecutive requests.
C26_IntervalFromStartOfPrevious ==
    pportal.pc # "none" =>
        \A i \in 2..Len(pportal.requests) :
            pportal.requests[i].start >=
                pportal.requests[i - 1].start + pportal.request_interval

\* The statement of C26 for the structured client.
C26_KkjIntervalFromEndOfPrevious ==
    kkj.pc # "none" =>
        \A i \in 2..Len(kkj.requests) :
            kkj.requests[i].start >=
                kkj.requests[i - 1].end + kkj.request_interval

\* The requests made for the i-th search of the structured client.
KkjRequestsOf(i) ==
    { r \in 1..Len(kkj.requests) : kkj.requests[r].search = i }

\* C27: a fetch of the structured client makes at most 3 attempts; only
\* transport-level failures are retried; a response with status >= 400 is
\* raised with its status code and is not retried.
C27_OnlyTransportFailuresRetried ==
    kkj.pc # "none" =>
        /\ \A i \in 1..Len(kkj.searches) :
              Cardinality(KkjRequestsOf(i)) <= StopAfterAttempt
        /\ \A r \in 1..Len(kkj.requests) :
              kkj.requests[r].attempt > 1 =>
                  kkj.requests[r - 1].outcome = "transport"
        /\ \A r \in 1..Len(kkj.requests) :
              kkj.requests[r].outcome = "http" =>
                  /\ kkj.searches[kkj.requests[r].search].outcome = "KKJAPIError"
                  /\ kkj.searches[kkj.requests[r].search].status_code # Null

\* What the structured client keeps: at most 3 attempts per fetch, and the
\* error that ends a fetch on a status >= 400 carries the status code.
C27_AtMostThreeAttempts ==
    kkj.pc # "none" =>
        /\ \A i \in 1..Len(kkj.searches) :
              Cardinality(KkjRequestsOf(i)) <= StopAfterAttempt
        /\ \A r \in 1..Len(kkj.requests) :
              kkj.requests[r].attempt <= StopAfterAttempt
        /\ \A i \in 1..Len(kkj.searches) :
              ( /\ kkj.searches[i].outcome = "KKJAPIError"
                /\ KkjRequestsOf(i) # {} ) => kkj.searches[i].status_code # Null

\* The requests of one kind made for the i-th search of the portal client.
PPortalRequestsOf(i, kind) ==
    { r \in 1..Len(pportal.requests) :
        /\ pportal.requests[r].search = i
        /\ pportal.requests[r].kind = kind }

\* C28: the portal client retries its session GET and its search POST on
\* a transport-level failure: such a failure is raised only after 3
\* attempts of the request.
C28_PortalTransportFailureRetried ==
    pportal.pc # "none" =>
        \A i \in 1..Len(pportal.searches) :
            pportal.searches[i].outcome = "TransportError" =>
                \E kind \in {"GET", "POST"} :
                    Cardinality(PPortalRequestsOf(i, kind)) = StopAfterAttempt

\* What the portal client does: every request is attempted once.
C28_PortalRequestsAttemptedOnce ==
    pportal.pc # "none" =>
        \A i \in 1..Len(pportal.searches), kind \in {"GET", "POST"} :
            Cardinality(PPortalRequestsOf(i, kind)) <= 1

\* C29: a search of the structured client with no anchor field (Query,
\* Project_Name, Organization_Name, LG_Code) ends with KKJAPIError, with
\* no request made for it, no retry, and _last_request_time unchanged.
C29_NoAnchorFailsBeforeAnyRequest ==
    kkj.pc # "none" =>
        /\ \A i \in 1..Len(kkj.searches) :
              ~HasAnchor(kkj.searches[i].params) =>
                  /\ kkj.searches[i].outcome = "KKJAPIError"
                  /\ kkj.searches[i].status_code = Null
                  /\ KkjRequestsOf(i) = {}
        /\ ( /\ kkj.searches # <<>>
             /\ ~HasAnchor(kkj.searches[Len(kkj.searches)].params) ) =>
                  /\ kkj.pc = "idle"
                  /\ kkj.attempt = 0
                  /\ Len(kkj.requests) =
                         kkj.searches[Len(kkj.searches)].requests_before
                  /\ kkj.last_request_time =
                         kkj.searches[Len(kkj.searches)].last_request_time_before

\* C29 witness: after a fetch that got a response, a search with only a
\* non-anchor field was rejected.
C29_Witness ==
    /\ kkj.pc = "idle"
    /\ Len(kkj.searches) = 2
    /\ kkj.searches[1].outcome = "returned"
    /\ ~HasAnchor(kkj.searches[2].params)
    /\ kkj.searches[2].params.CFT_Issue_Date # ""
    /\ kkj.searches[2].outcome = "KKJAPIError"
    /\ kkj.last_request_time > 0

\* C30: the portal client issues no search POST before a session GET has
\* succeeded; the session GET succeeds at most once per instance; a failed
\* session GET leaves the client uninitialized and ends the search with
\* no POST.
C30_SessionBeforeSearch ==
    pportal.pc # "none" =>
        /\ \A r \in 1..Len(pportal.requests) :
              pportal.requests[r].kind = "POST" =>
                  \E g \in 1..(r - 1) :
                      /\ pportal.requests[g].kind = "GET"
                      /\ pportal.requests[g].outcome = "ok"
        /\ Cardinality({ g \in 1..Len(pportal.requests) :
                            /\ pportal.requests[g].kind = "GET"
                            /\ pportal.requests[g].outcome = "ok" }) <= 1
        /\ pportal.session_initialized <=>
              \E g \in 1..Len(pportal.requests) :
                  /\ pportal.requests[g].kind = "GET"
                  /\ pportal.requests[g].outcome = "ok"
        /\ \A g \in 1..Len(pportal.requests) :
              ( /\ pportal.requests[g].kind = "GET"
                /\ pportal.requests[g].outcome # "ok" ) =>
                  /\ PPortalRequestsOf(pportal.requests[g].search, "POST") = {}
                  /\ pportal.searches[pportal.requests[g].search].outcome
                         \in {"PPortalAPIError", "TransportError"}

\* C30 witness: a search whose session GET failed and made no POST, then
\* a search that established the session and posted.
C30_Witness ==
    /\ pportal.pc = "idle"
    /\ Len(pportal.searches) = 2
    /\ pportal.searches[1].outcome = "TransportError"
    /\ PPortalRequestsOf(1, "POST") = {}
    /\ ~pportal.searches[2].initialized_before
    /\ pportal.searches[2].outcome = "returned"
    /\ PPortalRequestsOf(2, "GET") # {}
    /\ PPortalRequestsOf(2, "POST") # {}
    /\ pportal.session_initialized

\* The mutable fields the UPDATE and the INSERT take from the item.
ItemFields ==
    { "source_item_id", "url", "title", "organization_name", "published_at",
      "deadline_at", "category", "region", "body", "body_hash", "content_hash" }

\* C31: a call that matches a row overwrites that row's source_item_id,
\* url, title, organization_name, published_at, deadline_at, category,
\* region, body, body_hash and content_hash and refreshes updated_at, and
\* leaves the row's id, source and created_at as they were; a call that
\* inserts sets created_at and updated_at to one timestamp.  Either way one
\* row is written and every other row is unchanged.
C31_UpsertWritesOneRow ==
    \A j \in 1..Len(calls) :
        LET c    == calls[j]
            pre  == c.pre
            post == PostOf(j)
        IN /\ (~c.raised /\ ~c.is_new) =>
                 /\ c.id \in DOMAIN pre
                 /\ Len(post) = Len(pre)
                 /\ \A f \in ItemFields : post[c.id][f] = c.item[f]
                 /\ post[c.id].updated_at > pre[c.id].updated_at
                 /\ post[c.id].source = pre[c.id].source
                 /\ post[c.id].created_at = pre[c.id].created_at
                 /\ \A r \in DOMAIN pre : r # c.id => post[r] = pre[r]
           /\ c.is_new =>
                 /\ ~c.raised
                 /\ Len(post) = Len(pre) + 1
                 /\ c.id = Len(post)
                 /\ \A f \in ItemFields : post[c.id][f] = c.item[f]
                 /\ post[c.id].source = c.item.source
                 /\ post[c.id].created_at = post[c.id].updated_at
                 /\ \A r \in DOMAIN pre : post[r] = pre[r]
                 /\ \A r \in DOMAIN pre :
                       post[c.id].created_at > pre[r].updated_at

\* C31 witness: an item of one source matched a row of the other source
\* with another title, category and body; the row took the item's fields
\* and kept its source and created_at.
C31_Witness ==
    \E j \in 1..Len(calls) :
        /\ ~calls[j].raised /\ ~calls[j].is_new
        /\ Len(calls[j].pre) = 2
        /\ calls[j].pre[calls[j].id].source # calls[j].item.source
        /\ calls[j].pre[calls[j].id].title # calls[j].item.title
        /\ calls[j].pre[calls[j].id].category # calls[j].item.category
        /\ calls[j].pre[calls[j].id].source_item_id # calls[j].item.source_item_id
        /\ PostOf(j)[calls[j].id].title = calls[j].item.title
        /\ PostOf(j)[calls[j].id].source = calls[j].pre[calls[j].id].source
        /\ PostOf(j)[calls[j].id].updated_at > PostOf(j)[calls[j].id].created_at

\* C32: when the item's (source, source_item_id) matches row A while the
\* item's URL is stored on another row B, the call succeeds: it returns
\* (A, is_new = FALSE), row A has taken the item's fields, and the table
\* satisfies its unique indexes.
C32_KeyMatchWinsOverUrlConflict ==
    \A j \in 1..Len(calls) :
        LET c == calls[j] IN
        \A a \in C2_BySid(c.pre, c.item), b \in DOMAIN c.pre :
            ( /\ a # b
              /\ c.item.url # None
              /\ c.pre[b].url = c.item.url )
            => ( /\ ~c.raised
                 /\ ~c.is_new
                 /\ c.id = a
                 /\ PostOf(j)[a].url = c.item.url
                 /\ PostOf(j)[a].content_hash = c.item.content_hash
                 /\ UniqueIndexesHold(PostOf(j)) )

\* What the code does in the case of C32: the call raises and the table is
\* left as it was.
C32_KeyMatchWithUrlConflictRaises ==
    \A j \in 1..Len(calls) :
        LET c == calls[j] IN
        \A a \in C2_BySid(c.pre, c.item), b \in DOMAIN c.pre :
            ( /\ a # b
              /\ c.item.url # None
              /\ c.pre[b].url = c.item.url )
            => ( c.raised /\ PostOf(j) = c.pre )

\* C33: an upsert of a scraped item without a detail URL that matches no
\* stored row by case number or content hash inserts a row: two such items
\* with different case numbers and content hashes end up as two rows, and
\* neither upsert fails.
C33_ItemsWithoutUrlBothPersisted ==
    \A j \in 1..Len(calls) :
        LET c == calls[j] IN
        ( /\ ~Truthy(c.item.url)
          /\ C2_BySid(c.pre, c.item) = {}
          /\ C2_ByHash(c.pre, c.item) = {} )
        => ( /\ ~c.raised
             /\ c.is_new
             /\ Len(PostOf(j)) = Len(c.pre) + 1 )

\* C34: for every finalized run (status ok or failed) hit_count equals the
\* number of hit rows linked to the run.
C34_HitCountMatchesHitRows ==
    \A r \in DOMAIN runs :
        runs[r].status \in {"ok", "failed"} =>
            runs[r].hit_count = Cardinality(HitsOfRun(r))

\* What holds of C34: the runs finalized ok.
C34_OkRunsCountTheirHits ==
    \A r \in DOMAIN runs :
        runs[r].status = "ok" =>
            runs[r].hit_count = Cardinality(HitsOfRun(r))

\* C35: for the saved search with only_new, an item the search found is
\* left out of a run's new items only if it is a hit of an earlier run of
\* that saved search that finalized ok: the hits of a run that finalized
\* failed do not suppress the item.
C35_OnlyOkRunsSuppress ==
    \A i \in DOMAIN execs :
        LET e == execs[i] IN
        ( /\ saved_search(e.saved_search_id).only_new
          /\ ~e.dry_run
          /\ e.raised_at # "search" )
        => \A k \in DOMAIN e.found :
              e.found[k] \notin Range(e.new_items) =>
                  \E h \in DOMAIN hits :
                      /\ hits[h].item_id = e.found[k]
                      /\ hits[h].saved_search_run_id < e.run_id
                      /\ runs[hits[h].saved_search_run_id].saved_search_id
                            = e.saved_search_id
                      /\ runs[hits[h].saved_search_run_id].status = "ok"

\* What the code does in the case of C35: an item is left out only if it is
\* a hit of an earlier run of the saved search, whatever that run's status.
C35_EarlierHitsSuppress ==
    \A i \in DOMAIN execs :
        LET e == execs[i] IN
        ( /\ saved_search(e.saved_search_id).only_new
          /\ ~e.dry_run
          /\ e.raised_at # "search" )
        => \A k \in DOMAIN e.found :
              e.found[k] \notin Range(e.new_items) <=>
                  \E h \in DOMAIN hits :
                      /\ hits[h].item_id = e.found[k]
                      /\ hits[h].saved_search_run_id < e.run_id
                      /\ runs[hits[h].saved_search_run_id].saved_search_id
                            = e.saved_search_id

\* The new items of an execution that its notification batch left out.
LeftOut(e) ==
    { e.new_items[k] : k \in (e.cfg.max_items + 1)..Len(e.new_items) }

\* The items of the batches an execution handed to send_notification.
BatchItems(e) ==
    UNION { Range(e.attempts[a].items) : a \in DOMAIN e.attempts }

\* The same for the executions of the saved search after the i-th.
LaterBatches(i) ==
    UNION { BatchItems(execs[j]) :
              j \in { x \in (i + 1)..Len(execs) :
                        execs[x].saved_search_id = execs[i].saved_search_id } }

\* C36: the new items a run leaves out of its notification batch are not
\* lost: each is in the batch of a later notification, or can still become
\* new in a later run (it is not among the previous hits of the saved
\* search).
C36_LeftOutItemsNotLost ==
    \A i \in DOMAIN execs :
        ( /\ saved_search(execs[i].saved_search_id).only_new
          /\ ~execs[i].dry_run
          /\ execs[i].attempts # <<>> )
        => \A x \in LeftOut(execs[i]) :
              \/ x \in LaterBatches(i)
              \/ x \notin get_previous_hit_item_ids(hits, runs,
                                execs[i].saved_search_id)

\* What the code does in the case of C36: a left-out item is a recorded hit
\* of the run and is in no later batch.
C36_LeftOutItemsAreHits ==
    \A i \in DOMAIN execs :
        ( /\ saved_search(execs[i].saved_search_id).only_new
          /\ ~execs[i].dry_run
          /\ execs[i].attempts # <<>> )
        => \A x \in LeftOut(execs[i]) :
              /\ x \notin LaterBatches(i)
              /\ \E h \in HitsOfRun(execs[i].run_id) : hits[h].item_id = x

\* The deliveries an execution attempted to one recipient.
AttemptsTo(e, recipient) ==
    { a \in DOMAIN e.attempts : e.attempts[a].recipient = recipient }

\* The recipient list names some recipient more than once.
HasRepeat(recipients) ==
    \E i, j \in DOMAIN recipients : i # j /\ recipients[i] = recipients[j]

\* C37: within one run the delivery to a (channel, recipient) is attempted
\* at most once and leaves at most one notification row, also when the
\* recipient is listed more than once; a repeated recipient does not make
\* the run fail.
C37_RepeatedRecipientDeliveredOnce ==
    \A i \in DOMAIN execs :
        LET e == execs[i] IN
        ~e.dry_run =>
            /\ \A recipient \in Range(e.cfg.recipients) :
                  /\ Cardinality(AttemptsTo(e, recipient)) <= 1
                  /\ Cardinality(RowsFor(e.run_id, recipient)) <= 1
            /\ ( /\ HasRepeat(e.cfg.recipients)
                 /\ \A a \in DOMAIN e.attempts :
                       e.attempts[a].outcome # "OSError" )
               => ( /\ e.result.status = "ok"
                    /\ runs[e.run_id].status = "ok" )

\* What holds of C37: at most one notification row per run and recipient.
C37_OneRowPerRecipient ==
    \A i \in DOMAIN execs :
        ~execs[i].dry_run =>
            \A recipient \in Range(execs[i].cfg.recipients) :
                Cardinality(RowsFor(execs[i].run_id, recipient)) <= 1

\* C38: an execution with dry_run leaves the store as it was (no run, hit
\* or notification row is created, last_run_at and notified_at are not
\* touched, the items are not touched) and attempts no delivery.
C38_DryRunLeavesStoreUnchanged ==
    [][ ( /\ Len(execs') = Len(execs) + 1
          /\ execs'[Len(execs')].dry_run )
        => ( /\ runs' = runs
             /\ hits' = hits
             /\ notifications' = notifications
             /\ last_run_at' = last_run_at
             /\ items' = items
             /\ execs'[Len(execs')].attempts = <<>>
             /\ execs'[Len(execs')].writes = <<>> ) ]_vars

\* C38 witness: after a real run that stored a run, hits and a notification,
\* a dry run with notification requested found items and went through the
\* recipient loop.
C38_Witness ==
    /\ Len(execs) = 2
    /\ ~execs[1].dry_run
    /\ notifications # <<>>
    /\ hits # <<>>
    /\ execs[2].dry_run
    /\ execs[2].notify
    /\ execs[2].new_items # <<>>
    /\ execs[2].cfg.recipients # <<>>
    /\ execs[2].result.notified
    /\ Len(runs) = 1

\* C39: a chunk whose fetched count reaches the cap only makes
\* run_full_ingest warn: the chunk is not split again, its counts are
\* recorded like those of any other chunk, and the chunk results are the
\* planned chunks in plan order.
C39_CappedChunkOnlyWarns ==
    ingest.state # "idle" =>
        LET res == ingest.result.chunk_results
        IN /\ Len(res) = Len(ingest.trace)
           /\ Len(res) <= PlannedChunks
           /\ ingest.state = "returned" => Len(res) = PlannedChunks
           /\ \A i \in DOMAIN res :
                 /\ res[i].from = strftime(PlannedFrom(i))
                 /\ res[i].to = strftime(PlannedTo(i))
                 /\ ~ingest.trace[i].raised =>
                       /\ ingest.trace[i].warned <=> res[i].fetched >= MaxCount
                       /\ res[i].fetched = Len(ingest.trace[i].response.results)
                       /\ res[i].api_hits = ingest.trace[i].response.search_hits
                       /\ res[i].errors = 0
                       /\ ingest.dry_run => res[i].new = res[i].fetched
                       /\ ~ingest.dry_run =>
                             res[i].new + res[i].updated = res[i].fetched
           /\ ingest.result.total_fetched = SumField(res, "fetched")
           /\ ingest.result.chunks_processed = Len(res)

\* C39 witness: a run of two planned chunks has returned; its first chunk
\* reached the cap with more hits reported than fetched, and was warned
\* about.
C39_Witness ==
    /\ ingest.state = "returned"
    /\ PlannedChunks = 2
    /\ Len(ingest.trace) = 2
    /\ ~ingest.trace[1].raised
    /\ ingest.trace[1].warned
    /\ ingest.result.chunk_results[1].fetched = MaxCount
    /\ ingest.result.chunk_results[1].api_hits > MaxCount
    /\ ~ingest.trace[2].raised
    /\ ~ingest.trace[2].warned
    /\ ingest.result.chunk_results[2].to = ingest.end_date

\* C40: date_range_generator always terminates: for every start_date,
\* end_date and days_per_chunk, every turn of the loop that yields a chunk
\* moves the cursor strictly forward, so the sequence of chunks is finite.
C40_CursorStrictlyAdvances ==
    [][ (gen.state = "running" /\ gen'.state = "running"
            /\ Len(gen'.yielded) = Len(gen.yielded) + 1)
        => gen'.current > gen.current ]_vars

\* What the code does with days_per_chunk >= 1: the cursor moves forward at
\* every chunk, and a range whose start is after its end yields no chunk.
C40_PositiveChunkDaysAdvance ==
    [][ (gen.state = "running" /\ gen.days_per_chunk >= 1)
        => /\ Len(gen'.yielded) = Len(gen.yielded) + 1
              => gen'.current > gen.current
           /\ gen.current > gen.end /\ gen.yielded = <<>>
              => gen'.state = "exhausted" /\ gen'.yielded = <<>> ]_vars

\* What the code does with days_per_chunk = 0: the cursor stays where it is
\* while chunks keep being yielded.
C40_ZeroChunkDaysStalls ==
    gen.state = "running" /\ gen.days_per_chunk = 0 /\ gen.yielded # <<>>
        => /\ gen.current = strptime(gen.start_date)
           /\ gen.current <= gen.end

\* A generator with days_per_chunk = 0 that has yielded MaxYields chunks and
\* is still inside the loop.
C40_StalledWitness ==
    /\ gen.state = "running"
    /\ gen.days_per_chunk = 0
    /\ Len(gen.yielded) = MaxYields
    /\ gen.current <= gen.end

====
